---------------------------- MODULE Spec2Model ----------------------------
(***************************************************************************)
(* HookManager: the handler store (HookRegistry), the execution supervisor *)
(* and batch runner (HookExecutor) and the entry points of the             *)
(* HookInterceptor, as a state machine.                                    *)
(*                                                                         *)
(* JavaScript values: an absent / undefined value is None.  A Map is a     *)
(* function whose DOMAIN is the set of keys.  Hook objects are shared by   *)
(* reference between the registry and a running batch: a batch position    *)
(* keeps its object and a flag "linked" that says the object is still the  *)
(* one the registry holds under that id, so that in-place mutations        *)
(* (enable, disable, priority, counters) reach it.                         *)
(***************************************************************************)
EXTENDS Integers, Sequences, FiniteSets, TLC

VARIABLES
    hooks,          \* HookRegistry.hooks          : Map id -> hook object
    eventIndex,     \* HookRegistry.eventIndex     : Map event -> id[]
    priorityIndex,  \* HookRegistry.priorityIndex  : Map event -> id[]
    stats,          \* HookRegistry.stats          : Map id -> HookStats
    thrown,         \* the error the last registry / interceptor call raised
    providerManager,\* HookExecutor.providerManager
    batch,          \* the dispatch in flight (or the last one finished)
    calls,          \* history: the updateStats / recordError calls a caller
                    \* made on the registry itself, per id and in order
    interceptor     \* HookInterceptor: `initialized`, and where each
                    \* initialize() call in flight stands

vars ==
    <<hooks, eventIndex, priorityIndex, stats, thrown, providerManager, batch, calls,
      interceptor>>

None == "none"

-----------------------------------------------------------------------------
(* Bounds of the model *)

\* longest id list an event's index may grow to (register appends without end)
MaxIndexLen == 3

\* most executions recorded per handler before dispatching stops
MaxExecutions == 1

-----------------------------------------------------------------------------
(* Generic helpers for Maps and arrays *)

EmptyMap == [k \in {} |-> None]

Has(m, k) == k \in DOMAIN m

Get(m, k) == IF k \in DOMAIN m THEN m[k] ELSE None

Put(m, k, v) == [x \in (DOMAIN m) \cup {k} |-> IF x = k THEN v ELSE m[x]]

Del(m, k) == [x \in (DOMAIN m) \ {k} |-> m[x]]

Range(s) == {s[i] : i \in DOMAIN s}

\* Array.prototype.indexOf: first position of v, 0 when absent
IndexOf(s, v) ==
    IF v \in Range(s) THEN CHOOSE i \in DOMAIN s : s[i] = v /\ \A j \in 1..(i-1) : s[j] # v
    ELSE 0

\* Array.prototype.splice(index, 1)
RemoveAt(s, i) == [j \in 1..(Len(s) - 1) |-> IF j < i THEN s[j] ELSE s[j + 1]]

-----------------------------------------------------------------------------
(* Optional values: Nothing is undefined, Some(v) a present value.  String  *)
(* fields use None for undefined.                                          *)

Nothing == <<>>

Some(v) == <<v>>

IsSome(o) == o # <<>>

Val(o) == o[1]

\* JavaScript `o || d` on an optional number: undefined and 0 are falsy
OrNum(o, d) == IF IsSome(o) /\ Val(o) # 0 THEN Val(o) ELSE d

\* JavaScript `o !== false` on an optional boolean
NotFalse(o) == ~(IsSome(o) /\ Val(o) = FALSE)

\* JavaScript `o || d` on an optional array / object (every array is truthy)
OrObj(o, d) == IF IsSome(o) THEN Val(o) ELSE d

\* JavaScript truthiness of a string field ('' and undefined are falsy)
Truthy(str) == str # None /\ str # ""

-----------------------------------------------------------------------------
(* HookRegistry *)

\* the hook object register() builds from a definition
\* (matcher is not among the fields it copies)
RegisteredHook(cfg) ==
    [ id               |-> cfg.id,
      name             |-> cfg.name,
      enabled          |-> NotFalse(cfg.enabled),
      events           |-> cfg.events,
      handler          |-> Val(cfg.handler),
      filter           |-> cfg.filter,
      matcher          |-> None,
      priority         |-> OrNum(cfg.priority, 50),
      timeout          |-> cfg.timeout,
      retry            |-> Some(OrNum(cfg.retry, 0)),
      continueOnError  |-> Some(NotFalse(cfg.continueOnError)),
      exitCodeBlocking |-> Some(OrObj(cfg.exitCodeBlocking, {2})),
      executionCount   |-> 0,
      successCount     |-> 0,
      failureCount     |-> 0,
      lastError        |-> None ]

\* variant: a validation that lets an empty event list through
ValidationErrorButEvents(cfg) ==
    IF ~Truthy(cfg.id) THEN "Hook ID is required"
    ELSE IF ~Truthy(cfg.name) THEN "Hook name is required"
    ELSE IF ~IsSome(cfg.handler) THEN "Hook handler is required"
    ELSE None

\* register()'s validation: the message of the HookError it throws, or None
ValidationError(cfg) ==
    IF ~Truthy(cfg.id) THEN "Hook ID is required"
    ELSE IF ~Truthy(cfg.name) THEN "Hook name is required"
    ELSE IF cfg.events = <<>> THEN "Hook must have at least one event"
    ELSE IF ~IsSome(cfg.handler) THEN "Hook handler is required"
    ELSE None

\* the HookStats register() starts a handler with
InitialStats ==
    [ executions      |-> 0,
      successes       |-> 0,
      failures        |-> 0,
      blocked         |-> 0,
      averageDuration |-> [num |-> 0, den |-> 1],
      lastError       |-> None,
      errorHistory    |-> <<>> ]

\* for (const event of events) { index.get(event).push(id) }
RECURSIVE IndexEvents(_, _, _)
IndexEvents(idx, events, id) ==
    IF events = <<>> THEN idx
    ELSE LET e   == Head(events)
             cur == IF Has(idx, e) THEN idx[e] ELSE <<>>
         IN  IndexEvents(Put(idx, e, Append(cur, id)), Tail(events), id)

\* for (const event of events) { splice the first id out; delete an empty list }
RECURSIVE UnindexEvents(_, _, _)
UnindexEvents(idx, events, id) ==
    IF events = <<>> THEN idx
    ELSE LET e == Head(events)
         IN  IF ~Has(idx, e) THEN UnindexEvents(idx, Tail(events), id)
             ELSE LET i    == IndexOf(idx[e], id)
                      rest == IF i > 0 THEN RemoveAt(idx[e], i) ELSE idx[e]
                  IN  UnindexEvents(IF rest = <<>> THEN Del(idx, e) ELSE Put(idx, e, rest),
                                    Tail(events), id)

\* ids.map(id => hooks.get(id)).filter(hook => hook && hook.enabled)
RECURSIVE EnabledHooks(_, _)
EnabledHooks(hs, ids) ==
    IF ids = <<>> THEN <<>>
    ELSE IF Has(hs, Head(ids)) /\ hs[Head(ids)].enabled
         THEN <<hs[Head(ids)]>> \o EnabledHooks(hs, Tail(ids))
         ELSE EnabledHooks(hs, Tail(ids))

\* variant: a comparator that puts the later of two equal priorities first
PriorityLess(a, b) == a.priority - b.priority < 0

\* the comparator of the sort: a goes before b when a.priority - b.priority <= 0
PriorityLeq(a, b) == a.priority - b.priority <= 0

\* Array.prototype.sort((a, b) => a.priority - b.priority): stable
RECURSIVE SortByPriority(_)
SortByPriority(s) ==
    IF s = <<>> THEN <<>>
    ELSE LET front == SortByPriority(SubSeq(s, 1, Len(s) - 1))
             last  == s[Len(s)]
             k     == Cardinality({i \in DOMAIN front : PriorityLeq(front[i], last)})
         IN  SubSeq(front, 1, k) \o <<last>> \o SubSeq(front, k + 1, Len(front))

HookIds(s) == [i \in DOMAIN s |-> s[i].id]

\* HookRegistry.getHooksForEvent on a registry state
HooksForEvent(hs, idx, event) ==
    SortByPriority(EnabledHooks(hs, IF Has(idx, event) THEN idx[event] ELSE <<>>))

getHooksForEvent(event) == HooksForEvent(hooks, eventIndex, event)

\* HookRegistry.updatePriorityIndex: rebuilt from the event index
updatePriorityIndex(hs, idx) ==
    [e \in DOMAIN idx |-> HookIds(SortByPriority(EnabledHooks(hs, idx[e])))]

-----------------------------------------------------------------------------
(* Hook objects shared between the registry and a running batch *)

\* the registry replaced or dropped its object for id: the batch keeps the old one
Unlink(b, id) ==
    [b EXCEPT !.hooks = [i \in DOMAIN @ |->
        IF @[i].hook.id = id THEN [@[i] EXCEPT !.linked = FALSE] ELSE @[i]]]

UnlinkAll(b) ==
    [b EXCEPT !.hooks = [i \in DOMAIN @ |-> [@[i] EXCEPT !.linked = FALSE]]]

\* variant: the batch works on copies taken at the lookup
SyncLinkedCopies(b, hs) == b

\* the registry mutated its objects in place: the batch sees the same objects
SyncLinked(b, hs) ==
    [b EXCEPT !.hooks = [i \in DOMAIN @ |->
        IF @[i].linked THEN [@[i] EXCEPT !.hook = hs[@.id]] ELSE @[i]]]

-----------------------------------------------------------------------------
(* HookRegistry: operations *)

NotFound == "Hook not found"

\* register(hookConfig); icp: the interceptor after the call, which changes
\* when the caller is initialize()
registerThen(cfg, icp) ==
    IF ValidationError(cfg) # None
    THEN /\ thrown' = ValidationError(cfg)
         /\ UNCHANGED <<hooks, eventIndex, priorityIndex, stats, providerManager, calls, batch>>
         /\ interceptor' = icp
    ELSE LET hook == RegisteredHook(cfg)
             hs   == Put(hooks, hook.id, hook)
             idx  == IndexEvents(eventIndex, hook.events, hook.id)
         IN  /\ \A e \in DOMAIN idx : Len(idx[e]) <= MaxIndexLen
             /\ hooks' = hs
             /\ eventIndex' = idx
             /\ priorityIndex' = updatePriorityIndex(hs, idx)
             /\ stats' = Put(stats, hook.id, InitialStats)
             /\ thrown' = None
             /\ batch' = Unlink(batch, hook.id)
             /\ UNCHANGED <<providerManager, calls>>
             /\ interceptor' = icp

\* registry.register(hookConfig), called by the host
register(cfg) == registerThen(cfg, interceptor)

unregister(id) ==
    IF ~Has(hooks, id)
    THEN /\ thrown' = NotFound
         /\ UNCHANGED <<hooks, eventIndex, priorityIndex, stats, providerManager, calls, batch, interceptor>>
    ELSE LET hs  == Del(hooks, id)
             idx == UnindexEvents(eventIndex, hooks[id].events, id)
         IN  /\ hooks' = hs
             /\ eventIndex' = idx
             /\ priorityIndex' = updatePriorityIndex(hs, idx)
             /\ stats' = Del(stats, id)
             /\ thrown' = None
             /\ batch' = Unlink(batch, id)
             /\ UNCHANGED <<providerManager, calls, interceptor>>

\* enable / disable share their code but for the value written
SetEnabled(id, flag) ==
    IF ~Has(hooks, id)
    THEN /\ thrown' = NotFound
         /\ UNCHANGED <<hooks, eventIndex, priorityIndex, stats, providerManager, calls, batch, interceptor>>
    ELSE LET hs == [hooks EXCEPT ![id].enabled = flag]
         IN  /\ hooks' = hs
             /\ priorityIndex' = updatePriorityIndex(hs, eventIndex)
             /\ thrown' = None
             /\ batch' = SyncLinked(batch, hs)
             /\ UNCHANGED <<eventIndex, stats, providerManager, calls, interceptor>>

enable(id) == SetEnabled(id, TRUE)

disable(id) == SetEnabled(id, FALSE)

updatePriority(id, priority) ==
    IF ~Has(hooks, id)
    THEN /\ thrown' = NotFound
         /\ UNCHANGED <<hooks, eventIndex, priorityIndex, stats, providerManager, calls, batch, interceptor>>
    ELSE IF priority < 0 \/ priority > 1000
    THEN /\ thrown' = "Priority must be between 0 and 1000"
         /\ UNCHANGED <<hooks, eventIndex, priorityIndex, stats, providerManager, calls, batch, interceptor>>
    ELSE LET hs == [hooks EXCEPT ![id].priority = priority]
         IN  /\ hooks' = hs
             /\ priorityIndex' = updatePriorityIndex(hs, eventIndex)
             /\ thrown' = None
             /\ batch' = SyncLinked(batch, hs)
             /\ UNCHANGED <<eventIndex, stats, providerManager, calls, interceptor>>

updateEvents(id, events) ==
    IF ~Has(hooks, id)
    THEN /\ thrown' = NotFound
         /\ UNCHANGED <<hooks, eventIndex, priorityIndex, stats, providerManager, calls, batch, interceptor>>
    ELSE IF events = <<>>
    THEN /\ thrown' = "Events cannot be empty"
         /\ UNCHANGED <<hooks, eventIndex, priorityIndex, stats, providerManager, calls, batch, interceptor>>
    ELSE LET hs  == [hooks EXCEPT ![id].events = events]
             idx == IndexEvents(UnindexEvents(eventIndex, hooks[id].events, id), events, id)
         IN  /\ \A e \in DOMAIN idx : Len(idx[e]) <= MaxIndexLen
             /\ hooks' = hs
             /\ eventIndex' = idx
             /\ priorityIndex' = updatePriorityIndex(hs, idx)
             /\ thrown' = None
             /\ batch' = SyncLinked(batch, hs)
             /\ UNCHANGED <<stats, providerManager, calls, interceptor>>

clear ==
    /\ hooks' = EmptyMap
    /\ eventIndex' = EmptyMap
    /\ priorityIndex' = EmptyMap
    /\ stats' = EmptyMap
    /\ thrown' = None
    /\ batch' = UnlinkAll(batch)
    /\ UNCHANGED <<providerManager, calls, interceptor>>

-----------------------------------------------------------------------------
(* HookInterceptor: the mutations it applies to the registry's objects *)

\* enableHook / disableHook write hook.enabled and leave the indexes alone
SetHookEnabled(id, flag) ==
    IF ~Has(hooks, id)
    THEN /\ thrown' = NotFound
         /\ UNCHANGED <<hooks, eventIndex, priorityIndex, stats, providerManager, calls, batch, interceptor>>
    ELSE LET hs == [hooks EXCEPT ![id].enabled = flag]
         IN  /\ hooks' = hs
             /\ thrown' = None
             /\ batch' = SyncLinked(batch, hs)
             /\ UNCHANGED <<eventIndex, priorityIndex, stats, providerManager, calls, interceptor>>

enableHook(id) == SetHookEnabled(id, TRUE)

disableHook(id) == SetHookEnabled(id, FALSE)

\* variant: an unknown id is passed over in silence
updateHookPriorityLenient(id, priority) ==
    IF ~Has(hooks, id)
    THEN /\ thrown' = None
         /\ UNCHANGED <<hooks, eventIndex, priorityIndex, stats, providerManager, calls, batch, interceptor>>
    ELSE LET hs == [hooks EXCEPT ![id].priority = priority]
         IN  /\ hooks' = hs
             /\ thrown' = None
             /\ batch' = SyncLinked(batch, hs)
             /\ UNCHANGED <<eventIndex, priorityIndex, stats, providerManager, calls, interceptor>>

\* updateHookPriority writes hook.priority: no range check, no index rebuild
updateHookPriority(id, priority) ==
    IF ~Has(hooks, id)
    THEN /\ thrown' = NotFound
         /\ UNCHANGED <<hooks, eventIndex, priorityIndex, stats, providerManager, calls, batch, interceptor>>
    ELSE LET hs == [hooks EXCEPT ![id].priority = priority]
         IN  /\ hooks' = hs
             /\ thrown' = None
             /\ batch' = SyncLinked(batch, hs)
             /\ UNCHANGED <<eventIndex, priorityIndex, stats, providerManager, calls, interceptor>>

-----------------------------------------------------------------------------
(* HookRegistry: statistics *)

RECURSIVE Gcd(_, _)
Gcd(a, b) == IF b = 0 THEN a ELSE Gcd(b, a % b)

\* a fraction in lowest terms
Frac(n, d) == LET g == Gcd(n, d) IN [num |-> n \div g, den |-> d \div g]

ErrorHistoryLimit == 100

\* variant: a lost update, the new counts computed from counts of zero read
\* before any of the concurrent invocations came back
UpdatedStatsFromStale(st, duration, success, blocked) ==
    [st EXCEPT
        !.executions = 1,
        !.successes = IF success THEN 1 ELSE 0,
        !.failures = IF success THEN 0 ELSE 1,
        !.blocked = IF blocked THEN 1 ELSE 0,
        !.averageDuration = Frac(duration, 1)]

\* variant: the average moved half way towards the new duration
UpdatedStatsHalving(st, duration, success, blocked) ==
    [st EXCEPT
        !.executions = @ + 1,
        !.successes = IF success THEN @ + 1 ELSE @,
        !.failures = IF success THEN @ ELSE @ + 1,
        !.blocked = IF blocked THEN @ + 1 ELSE @,
        !.averageDuration = Frac(@.num + duration * @.den, @.den * 2)]

\* the stats entry after updateStats(duration, success, blocked)
UpdatedStats(st, duration, success, blocked) ==
    LET n == st.executions + 1
    IN  [st EXCEPT
            !.executions = n,
            !.successes = IF success THEN @ + 1 ELSE @,
            !.failures = IF success THEN @ ELSE @ + 1,
            !.blocked = IF blocked THEN @ + 1 ELSE @,
            !.averageDuration =
                Frac(@.num * (n - 1) + duration * @.den, @.den * n)]

\* variant: a full history keeps its oldest entries and drops the new one
RecordedErrorKeepingOldest(st, message) ==
    LET h == Append(st.errorHistory, message)
    IN  [st EXCEPT
            !.lastError = message,
            !.errorHistory =
                IF Len(h) > ErrorHistoryLimit THEN SubSeq(h, 1, ErrorHistoryLimit) ELSE h]

\* the stats entry after recordError(message)
RecordedError(st, message) ==
    LET h == Append(st.errorHistory, message)
    IN  [st EXCEPT
            !.lastError = message,
            !.errorHistory =
                IF Len(h) > ErrorHistoryLimit
                THEN SubSeq(h, Len(h) - ErrorHistoryLimit + 1, Len(h))
                ELSE h]

\* The registry as one value reg = [hooks, stats], for the synchronous runs of
\* the executor that call into it.

\* HookRegistry.updateStats: nothing for an id without stats
updateStats(reg, id, duration, success, blocked) ==
    IF ~Has(reg.stats, id) THEN reg
    ELSE LET st == UpdatedStats(reg.stats[id], duration, success, blocked)
         IN  [ stats |-> [reg.stats EXCEPT ![id] = st],
               hooks |-> IF Has(reg.hooks, id)
                         THEN [reg.hooks EXCEPT ![id].executionCount = st.executions,
                                                ![id].successCount = st.successes,
                                                ![id].failureCount = st.failures]
                         ELSE reg.hooks ]

\* HookRegistry.recordError: nothing for an id without stats
recordError(reg, id, message) ==
    IF ~Has(reg.stats, id) THEN reg
    ELSE [ stats |-> [reg.stats EXCEPT ![id] = RecordedError(@, message)],
           hooks |-> IF Has(reg.hooks, id)
                     THEN [reg.hooks EXCEPT ![id].lastError = message]
                     ELSE reg.hooks ]

-----------------------------------------------------------------------------
(* HookExecutor: selection (matcher, filter) *)

\* the anchored regular expressions the model uses, as the set of targets
\* each one matches; "[" does not compile
RegexCompiles(matcher) == matcher # "["

RegexLanguage(matcher) ==
    CASE matcher = "Write"      -> {"Write"}
      [] matcher = "Bash|Write" -> {"Bash", "Write"}
      [] matcher = "startup"    -> {"startup"}
      [] OTHER                  -> {}

\* new RegExp(`^${matcher}$`).test(target), string equality when it throws
RegexTest(matcher, target) ==
    IF RegexCompiles(matcher) THEN target \in RegexLanguage(matcher)
    ELSE target = matcher

getMatcherTargetForEvent(event, metadata) ==
    IF ~IsSome(metadata) THEN None
    ELSE LET m == Val(metadata)
             field == CASE event = "SessionStart"  -> m.source
                        [] event = "SessionEnd"    -> m.reason
                        [] event = "SubagentStart" -> m.agent_type
                        [] event = "SubagentStop"  -> m.agent_type
                        [] event = "Notification"  -> m.type
                        [] event = "PreCompact"    -> m.trigger
                        [] OTHER                   -> None
         IN  IF Truthy(field) THEN field ELSE None

\* variant: no shortcut for the wildcard forms
checkMatcherWithoutWildcards(matcher, ctx) ==
    IF Truthy(ctx.tool) THEN RegexTest(matcher, ctx.tool)
    ELSE LET target == getMatcherTargetForEvent(ctx.event, ctx.metadata)
         IN  IF target # None THEN RegexTest(matcher, target) ELSE FALSE

checkMatcher(matcher, ctx) ==
    IF matcher = "*" \/ matcher = "" \/ matcher = ".*" THEN TRUE
    ELSE IF Truthy(ctx.tool) THEN RegexTest(matcher, ctx.tool)
    ELSE LET target == getMatcherTargetForEvent(ctx.event, ctx.metadata)
         IN  IF target # None THEN RegexTest(matcher, target) ELSE FALSE

\* String.prototype.includes on the command and input strings of the model
Includes(str, sub) ==
    \/ str = sub
    \/ <<str, sub>> \in { <<"npm install lodash", "npm install">>,
                          <<"{\"file\":\"a.env\"}", ".env">> }

\* a filter without any sub-condition
NoFilter ==
    [ tools |-> Nothing, commands |-> Nothing, patterns |-> Nothing,
      users |-> Nothing, projects |-> Nothing, environments |-> Nothing ]

\* variant: the commands condition is skipped for a context without a command
checkFilterCommandsLenient(filter, ctx) ==
    /\ (IsSome(filter.tools) /\ Truthy(ctx.tool)) => ctx.tool \in Val(filter.tools)
    /\ (IsSome(filter.commands) /\ Truthy(ctx.command)) =>
          \E cmd \in Val(filter.commands) : Includes(ctx.command, cmd)
    /\ (IsSome(filter.patterns) /\ Truthy(ctx.input)) =>
          \E pattern \in Val(filter.patterns) : Includes(ctx.input, pattern)
    /\ (IsSome(filter.users) /\ Truthy(ctx.userId)) => ctx.userId \in Val(filter.users)
    /\ (IsSome(filter.projects) /\ Truthy(ctx.projectId)) =>
          ctx.projectId \in Val(filter.projects)
    /\ IsSome(filter.environments) => ctx.envName \in Val(filter.environments)

\* checkFilter: ctx.input is JSON.stringify(context.input), ctx.envName the
\* name `env.NODE_ENV || env.ENV || 'development'` resolves to
checkFilter(filter, ctx) ==
    /\ (IsSome(filter.tools) /\ Truthy(ctx.tool)) => ctx.tool \in Val(filter.tools)
    /\ IsSome(filter.commands) =>
          /\ Truthy(ctx.command)
          /\ \E cmd \in Val(filter.commands) : Includes(ctx.command, cmd)
    /\ (IsSome(filter.patterns) /\ Truthy(ctx.input)) =>
          \E pattern \in Val(filter.patterns) : Includes(ctx.input, pattern)
    /\ (IsSome(filter.users) /\ Truthy(ctx.userId)) => ctx.userId \in Val(filter.users)
    /\ (IsSome(filter.projects) /\ Truthy(ctx.projectId)) =>
          ctx.projectId \in Val(filter.projects)
    /\ IsSome(filter.environments) => ctx.envName \in Val(filter.environments)

\* variant: the enabled flag is looked at after the matcher and the filter
PreCheckDisabledLast(hook, ctx) ==
    IF Truthy(hook.matcher) /\ ~checkMatcher(hook.matcher, ctx)
    THEN "Matcher did not match"
    ELSE IF IsSome(hook.filter) /\ ~checkFilter(Val(hook.filter), ctx)
    THEN "Filter did not match"
    ELSE IF ~hook.enabled THEN "Hook disabled"
    ELSE "run"

\* the three early returns of executeHook, or "run"
PreCheck(hook, ctx) ==
    IF ~hook.enabled THEN "Hook disabled"
    ELSE IF Truthy(hook.matcher) /\ ~checkMatcher(hook.matcher, ctx)
    THEN "Matcher did not match"
    ELSE IF IsSome(hook.filter) /\ ~checkFilter(Val(hook.filter), ctx)
    THEN "Filter did not match"
    ELSE "run"

\* variant: a retry override of 0 counts as no override
MaxRetriesOrHook(hook, optRetry) ==
    OrNum(optRetry, OrNum(hook.retry, 0))

\* options.retry !== undefined ? options.retry : hook.retry || 0
MaxRetries(hook, optRetry) ==
    IF IsSome(optRetry) THEN Val(optRetry) ELSE OrNum(hook.retry, 0)

\* options.timeout || hook.timeout || 30000
DefaultTimeout == 30000

EffectiveTimeout(hook, optTimeout) ==
    OrNum(optTimeout, OrNum(hook.timeout, DefaultTimeout))

\* variant: a backoff that counts attempts from one
RetryDelayFromOne(attempt) == 1000 * (attempt + 1)

\* the wait after failed attempt number `attempt` (from 0): 1000 * attempt
RetryDelay(attempt) == 1000 * attempt

\* variant: blocking decided by the success flag
BlocksOnFailure(result, hook) == ~result.success

shouldBlock(result, hook) ==
    result.exitCode \in OrObj(hook.exitCodeBlocking, {2})

-----------------------------------------------------------------------------
(* HookExecutor: handler variants and their normalised HookResult *)

BaseResult ==
    [ success            |-> TRUE,
      exitCode           |-> 0,
      stdout             |-> None,
      decision           |-> None,
      permissionDecision |-> None,
      reason             |-> None,
      error              |-> None ]

\* what a callback or module function returned
BoolValue(b) == [kind |-> "boolean", bool |-> b]

NumValue(n) == [kind |-> "number", num |-> n]

ObjValue(success, exitCode) == [kind |-> "object", success |-> success, exitCode |-> exitCode]

OtherValue == [kind |-> "other"]

\* executeProgrammatic / executeModule: "Normalize result"
NormalizeResult(raw) ==
    CASE raw.kind = "boolean" ->
            [BaseResult EXCEPT !.success = raw.bool,
                               !.exitCode = IF raw.bool THEN 0 ELSE 1]
      [] raw.kind = "number" ->
            [BaseResult EXCEPT !.success = (raw.num = 0), !.exitCode = raw.num]
      [] raw.kind = "object" ->
            [BaseResult EXCEPT
                !.success = NotFalse(raw.success),
                !.exitCode = OrNum(raw.exitCode,
                                   IF IsSome(raw.success) /\ Val(raw.success) THEN 0 ELSE 1)]
      [] OTHER -> BaseResult

\* executeCommand, child.on('close', code): code is Nothing when a signal
\* ended the process
CloseResult(code) ==
    [BaseResult EXCEPT !.success = (code = Some(0)), !.exitCode = OrNum(code, 0)]

\* variant: session-start is a decision event too
DecisionEventsWithSessionStart ==
    { "PreToolUse", "PostToolUse", "PostToolUseFailure",
      "PermissionRequest", "UserPromptSubmit", "SubagentStop", "SessionStart" }

DecisionEvents ==
    { "PreToolUse", "PostToolUse", "PostToolUseFailure",
      "PermissionRequest", "UserPromptSubmit", "SubagentStop" }

PermissionStyleEvents == {"PreToolUse", "PermissionRequest"}

\* ProviderManager.executeHookPrompt: raises when no provider is registered
\* (getProvider), and turns a failed completion into ok = true
BackendRaises(pm, answer) == pm = "unregistered"

BackendReply(pm, answer) ==
    CASE answer = "ok"    -> [ok |-> TRUE,  reason |-> "model reason"]
      [] answer = "notok" -> [ok |-> FALSE, reason |-> "model reason"]
      [] OTHER            -> [ok |-> TRUE,  reason |-> "Prompt execution failed"]

\* variant: a failed backend blocks
PromptFailClosed(message) ==
    [BaseResult EXCEPT !.success = FALSE, !.exitCode = 2,
                       !.decision = "block", !.reason = message]

\* the result executePrompt's catch block returns
PromptFailOpen(message) ==
    [BaseResult EXCEPT !.decision = "continue", !.reason = message]

\* variant: a denied permission also carries the blocking exit code
PromptDecisionDenyBlocks(event, reply) ==
    IF event \in {"PreToolUse", "PermissionRequest"}
    THEN [BaseResult EXCEPT
            !.exitCode = IF reply.ok THEN 0 ELSE 2,
            !.permissionDecision = IF reply.ok THEN "allow" ELSE "deny",
            !.reason = reply.reason]
    ELSE [BaseResult EXCEPT
            !.exitCode = IF reply.ok THEN 0 ELSE 2,
            !.decision = IF reply.ok THEN "continue" ELSE "block",
            !.reason = reply.reason]

\* variant: a refusal reported with the exit code of a plain failure
PromptDecisionExitOne(event, reply) ==
    IF event \in {"PreToolUse", "PermissionRequest"}
    THEN [BaseResult EXCEPT
            !.permissionDecision = IF reply.ok THEN "allow" ELSE "deny",
            !.reason = reply.reason]
    ELSE [BaseResult EXCEPT
            !.exitCode = IF reply.ok THEN 0 ELSE 1,
            !.decision = IF reply.ok THEN "continue" ELSE "block",
            !.reason = reply.reason]

\* executePrompt maps the reply to the event's output format
PromptDecision(event, reply) ==
    IF event \in PermissionStyleEvents
    THEN [BaseResult EXCEPT
            !.permissionDecision = IF reply.ok THEN "allow" ELSE "deny",
            !.reason = reply.reason]
    ELSE [BaseResult EXCEPT
            !.exitCode = IF reply.ok THEN 0 ELSE 2,
            !.decision = IF reply.ok THEN "continue" ELSE "block",
            !.reason = reply.reason]

\* does executePrompt reach providerManager.executeHookPrompt
PromptCallsBackend(event, pm) == event \in DecisionEvents /\ pm # "null"

executePrompt(event, pm, answer) ==
    IF event \notin DecisionEvents
    THEN [BaseResult EXCEPT !.stdout = "does not support prompt decisions"]
    ELSE IF pm = "null" THEN PromptFailOpen("ProviderManager not initialized")
    ELSE IF BackendRaises(pm, answer) THEN PromptFailOpen("Prompt handler failed")
    ELSE PromptDecision(event, BackendReply(pm, answer))

-----------------------------------------------------------------------------
(* HookExecutor: one invocation (executeHook) inside a batch                *)
(* S = [b |-> the batch, reg |-> [hooks, stats]]                            *)

PendingInv ==
    [ st |-> "pending", attempt |-> 0, calls |-> 0, backendCalls |-> 0,
      waits |-> <<>>, maxRetries |-> 0, timeout |-> 0, timedOut |-> {}, orphans |-> 0,
      returned |-> Nothing, outcome |-> None, rec |-> <<>> ]

\* the ExecutionResult of an early return
SkipRecord(hook, why) ==
    [ hookId   |-> hook.id,
      result   |-> [BaseResult EXCEPT !.stdout = why],
      duration |-> 0,
      blocked  |-> FALSE ]

\* what executeHook throws when every attempt failed
ExecutionError == "Hook failed after all attempts"

\* the ExecutionResult executeHooks builds in its catch
FailedRecord(hook, message) ==
    [ hookId   |-> hook.id,
      result   |-> [BaseResult EXCEPT !.success = FALSE, !.exitCode = 1, !.error = message],
      duration |-> 0,
      blocked  |-> FALSE ]

\* the ExecutionResult executeHook returns after an outcome
OutcomeRecord(hook, result, duration) ==
    [ hookId   |-> hook.id,
      result   |-> result,
      duration |-> duration,
      blocked  |-> shouldBlock(result, hook) ]

\* variant: an early return is counted as an execution
StartHookCounting(S, i) ==
    LET hook == S.b.hooks[i].hook
        why  == PreCheck(hook, S.b.ctx)
    IN  IF why # "run"
        THEN [ b   |-> [S.b EXCEPT !.inv[i] =
                        [@ EXCEPT !.st = "done", !.outcome = "skipped",
                                  !.rec = <<SkipRecord(hook, why)>>]],
               reg |-> updateStats(S.reg, hook.id, 0, TRUE, FALSE) ]
        ELSE [S EXCEPT !.b.inv[i] =
                [@ EXCEPT !.st = "running", !.attempt = 0, !.calls = 1,
                          !.maxRetries = MaxRetries(hook, S.b.retry),
                          !.timeout = EffectiveTimeout(hook, S.b.timeout)]]

\* executeHook up to its first await: an early return, or attempt 0 started
StartHook(S, i) ==
    LET hook == S.b.hooks[i].hook
        why  == PreCheck(hook, S.b.ctx)
    IN  IF why # "run"
        THEN [S EXCEPT !.b.inv[i] =
                [@ EXCEPT !.st = "done", !.outcome = "skipped",
                          !.rec = <<SkipRecord(hook, why)>>]]
        ELSE [S EXCEPT !.b.inv[i] =
                [@ EXCEPT !.st = "running", !.attempt = 0, !.calls = 1,
                          !.maxRetries = MaxRetries(hook, S.b.retry),
                          !.timeout = EffectiveTimeout(hook, S.b.timeout)]]

\* variant: the failure is thrown without being recorded
ExhaustedUnrecorded(reg, id, message, duration) == reg

\* the registry after all attempts failed: recordError, then updateStats
ExhaustedRegistry(reg, id, message, duration) ==
    updateStats(recordError(reg, id, message), id, duration, FALSE, FALSE)

\* an attempt returned `result`: stats, then the record
ReturnHook(S, i, result, duration) ==
    LET hook == S.b.hooks[i].hook
        rec  == OutcomeRecord(hook, result, duration)
    IN  [ b   |-> [S.b EXCEPT !.inv[i] =
                    [@ EXCEPT !.st = "done", !.outcome = "returned", !.rec = <<rec>>]],
          reg |-> updateStats(S.reg, hook.id, duration, result.success, rec.blocked) ]

\* variant: every failed attempt is counted as an execution
FailHookCountingAttempts(S, i, message, duration) ==
    LET hook == S.b.hooks[i].hook
        inv  == S.b.inv[i]
    IN  IF inv.attempt = inv.maxRetries
        THEN [ b   |-> [S.b EXCEPT !.inv[i] =
                        [@ EXCEPT !.st = "done", !.outcome = "exhausted",
                                  !.rec = <<FailedRecord(hook, ExecutionError)>>]],
               reg |-> ExhaustedRegistry(S.reg, hook.id, message, duration) ]
        ELSE [ b   |-> [S.b EXCEPT !.inv[i] =
                        [@ EXCEPT !.attempt = @ + 1, !.calls = @ + 1,
                                  !.waits = Append(@, RetryDelay(inv.attempt))]],
               reg |-> updateStats(S.reg, hook.id, duration, FALSE, FALSE) ]

\* an attempt failed: the next attempt after the wait, or the hard failure
FailHook(S, i, message, duration) ==
    LET hook == S.b.hooks[i].hook
        inv  == S.b.inv[i]
    IN  IF inv.attempt = inv.maxRetries
        THEN [ b   |-> [S.b EXCEPT !.inv[i] =
                        [@ EXCEPT !.st = "done", !.outcome = "exhausted",
                                  !.rec = <<FailedRecord(hook, ExecutionError)>>]],
               reg |-> ExhaustedRegistry(S.reg, hook.id, message, duration) ]
        ELSE [S EXCEPT !.b.inv[i] =
                [@ EXCEPT !.attempt = @ + 1, !.calls = @ + 1,
                          !.waits = Append(@, RetryDelay(inv.attempt))]]

-----------------------------------------------------------------------------
(* HookExecutor: the batch (executeHooks) *)

IsSingle(b) == b.kind # "handleEvent"

RECURSIVE CountSuccess(_, _)
\* results.filter(r => r.result.success === flag).length
CountSuccess(results, flag) ==
    IF results = <<>> THEN 0
    ELSE (IF Head(results).result.success = flag THEN 1 ELSE 0)
         + CountSuccess(Tail(results), flag)

RECURSIVE CountBlocked(_)
\* results.filter(r => r.blocked).length
CountBlocked(results) ==
    IF results = <<>> THEN 0
    ELSE (IF Head(results).blocked THEN 1 ELSE 0) + CountBlocked(Tail(results))

RECURSIVE SumDurations(_)
\* durations.reduce((a, b) => a + b, 0)
SumDurations(results) ==
    IF results = <<>> THEN 0 ELSE Head(results).duration + SumDurations(Tail(results))

RECURSIVE SummaryErrors(_)
\* the failed records, each mapped to {hookId, error message || 'Unknown error'}
SummaryErrors(results) ==
    IF results = <<>> THEN <<>>
    ELSE LET r    == Head(results)
             rest == SummaryErrors(Tail(results))
         IN  IF r.result.success THEN rest
             ELSE << [ hookId |-> r.hookId,
                       error  |-> IF Truthy(r.result.error) THEN r.result.error
                                  ELSE "Unknown error" ] >> \o rest

\* variant: a blocked record is not counted as successful
CountingBlockedApart(results) ==
    [ total           |-> Len(results),
      successful      |-> CountSuccess(results, TRUE) - CountBlocked(results),
      failed          |-> CountSuccess(results, FALSE),
      blocked         |-> CountBlocked(results),
      averageDuration |-> IF Len(results) > 0
                          THEN Frac(SumDurations(results), Len(results))
                          ELSE Frac(0, 1),
      errors          |-> SummaryErrors(results) ]

calculateSummary(results) ==
    [ total           |-> Len(results),
      successful      |-> CountSuccess(results, TRUE),
      failed          |-> CountSuccess(results, FALSE),
      blocked         |-> CountBlocked(results),
      averageDuration |-> IF Len(results) > 0
                          THEN Frac(SumDurations(results), Len(results))
                          ELSE Frac(0, 1),
      errors          |-> SummaryErrors(results) ]

\* the call returned to its caller: the batch no longer holds the objects
Finish(S) ==
    [S EXCEPT !.b = UnlinkAll(
        [@ EXCEPT !.status = "done",
                  !.summary = IF IsSingle(S.b) THEN Nothing
                              ELSE Some(calculateSummary(S.b.results))])]

\* variant: a loop that breaks on a hard failure only
SeqStopsOnFailureOnly(inv, continueOnError) ==
    inv.outcome = "exhausted" /\ ~continueOnError

\* variant: a loop whose catch breaks whatever the option says
SeqStopsIgnoringOption(inv, continueOnError) ==
    IF inv.outcome = "exhausted" THEN TRUE ELSE inv.rec[1].blocked

\* the sequential loop's two `break`s, after handler i came back
SeqStops(inv, continueOnError) ==
    IF inv.outcome = "exhausted" THEN ~continueOnError ELSE inv.rec[1].blocked

RECURSIVE RunFrom(_, _)
RECURSIVE Continue(_, _)
\* the sequential loop from handler i on, up to the next await that suspends
RunFrom(S, i) ==
    IF i > Len(S.b.hooks) THEN Finish(S)
    ELSE LET T == StartHook(S, i)
         IN  IF T.b.inv[i].st = "running" THEN T ELSE Continue(T, i)

\* variant: the loop also goes on when the failed handler's own definition
\* says continueOnError
ContinueByHookFlag(S, i) ==
    LET T == [S EXCEPT !.b.results = Append(@, S.b.inv[i].rec[1])]
        own == NotFalse(S.b.hooks[i].hook.continueOnError)
    IN  IF SeqStops(S.b.inv[i], S.b.continueOnError \/ own) THEN Finish(T)
        ELSE RunFrom(T, i + 1)

\* the sequential loop after handler i came back: push, then break or go on
Continue(S, i) ==
    LET T == [S EXCEPT !.b.results = Append(@, S.b.inv[i].rec[1])]
    IN  IF SeqStops(S.b.inv[i], S.b.continueOnError) THEN Finish(T)
        ELSE RunFrom(T, i + 1)

\* variant: only the first handler is started
StartFirstOnly(S, i) ==
    IF i > Len(S.b.hooks) THEN S ELSE StartHook(S, i)

\* hooks.map(hook => executeHook(hook).catch(...)): every handler is started
RECURSIVE StartAll(_, _)
StartAll(S, i) ==
    IF i > Len(S.b.hooks) THEN S ELSE StartAll(StartHook(S, i), i + 1)

\* await Promise.all(promises); results.push(...parallelResults)
Join(S) ==
    IF \A i \in DOMAIN S.b.inv : S.b.inv[i].st = "done"
    THEN Finish([S EXCEPT !.b.results = [i \in DOMAIN S.b.inv |-> S.b.inv[i].rec[1]]])
    ELSE S

\* a direct executeHook call comes back: its record, or the ExecutionError
ReturnSingle(S) ==
    IF S.b.inv[1].outcome = "exhausted"
    THEN [S EXCEPT !.b = UnlinkAll([@ EXCEPT !.status = "threw",
                                             !.error = ExecutionError,
                                             !.inv[1].rec = <<>>])]
    ELSE Finish([S EXCEPT !.b.results = <<S.b.inv[1].rec[1]>>])

\* what follows a step of handler i
AfterStep(S, i) ==
    IF S.b.inv[i].st # "done" THEN S
    ELSE IF IsSingle(S.b) THEN ReturnSingle(S)
    ELSE IF S.b.parallel THEN Join(S)
    ELSE Continue(S, i)

\* executeHooks(hooks, context, options) up to its first suspension
BeginBatch(S) ==
    IF IsSingle(S.b) THEN AfterStep(StartHook(S, 1), 1)
    ELSE IF S.b.parallel THEN Join(StartAll(S, 1))
    ELSE RunFrom(S, 1)

NewBatch(kind, hs, linked, ctx, opts) ==
    [ status          |-> "running",
      kind            |-> kind,
      parallel        |-> opts.parallel,
      continueOnError |-> opts.continueOnError,
      retry           |-> opts.retry,
      timeout         |-> opts.timeout,
      ctx             |-> ctx,
      hooks           |-> [i \in DOMAIN hs |-> [hook |-> hs[i], linked |-> linked]],
      inv             |-> [i \in DOMAIN hs |-> PendingInv],
      results         |-> <<>>,
      summary         |-> Nothing,
      error           |-> None ]

Registry == [hooks |-> hooks, stats |-> stats]

\* the next state from S
Commit(S) ==
    /\ batch' = SyncLinked(S.b, S.reg.hooks)
    /\ hooks' = S.reg.hooks
    /\ stats' = S.reg.stats

RECURSIVE TotalExecutions(_, _)
TotalExecutions(st, ids) ==
    IF ids = {} THEN 0
    ELSE LET id == CHOOSE x \in ids : TRUE
         IN  st[id].executions + TotalExecutions(st, ids \ {id})

\* one batch at a time, and no new one once MaxExecutions handlers have run
CanDispatch ==
    /\ batch.status # "running"
    /\ TotalExecutions(stats, DOMAIN stats) < MaxExecutions

-----------------------------------------------------------------------------
(* Values the operations are called with *)

Ids == {"h1", "h2"}

CommandHandler == [type |-> "command"]

\* a well-formed definition; the input sets vary its fields
BaseCfg ==
    [ id               |-> "h1",
      name             |-> "hook",
      enabled          |-> Nothing,
      events           |-> <<"SessionStart">>,
      handler          |-> Some(CommandHandler),
      filter           |-> Nothing,
      matcher          |-> None,
      priority         |-> Nothing,
      timeout          |-> Nothing,
      retry            |-> Nothing,
      continueOnError  |-> Nothing,
      exitCodeBlocking |-> Nothing ]

\* definitions register() must refuse
InvalidCfgs ==
    { [BaseCfg EXCEPT !.id = ""],
      [BaseCfg EXCEPT !.name = None],
      [BaseCfg EXCEPT !.events = <<>>],
      [BaseCfg EXCEPT !.handler = Nothing] }

StoreEventLists == { <<"SessionStart">>, <<"PreToolUse">> }

StoreEvents == {"SessionStart", "PreToolUse", "Stop"}

StoreCfgPriorities == {Nothing}

StorePriorities == {0, 1001}

StoreCfgs ==
    { [BaseCfg EXCEPT !.id = i, !.events = ev, !.priority = p] :
        i \in Ids, ev \in StoreEventLists, p \in StoreCfgPriorities }

-----------------------------------------------------------------------------
(* Dispatch state *)

NoContext ==
    [ event |-> None, tool |-> None, command |-> None, metadata |-> Nothing,
      input |-> None, userId |-> None, projectId |-> None, envName |-> "development" ]

IdleBatch ==
    [ status          |-> "idle",
      kind            |-> None,
      parallel        |-> FALSE,
      continueOnError |-> FALSE,
      retry           |-> Nothing,
      timeout         |-> Nothing,
      ctx             |-> NoContext,
      hooks           |-> <<>>,
      inv             |-> <<>>,
      results         |-> <<>>,
      summary         |-> Nothing,
      error           |-> None ]

\* the ids a caller hands to updateStats / recordError: h1 after it was
\* registered, h2 that never is
CallIds == {"h1", "h2"}

NoCalls == [outcomes |-> [id \in CallIds |-> <<>>], errors |-> [id \in CallIds |-> <<>>]]

\* the initialize() calls that can be in flight: the constructor's, the one
\* handleEvent makes when the interceptor is not initialized, the host's own
InitCalls == {"auto", "lazy", "call"}

Idle == [at |-> "idle", k |-> 0]

\* no HookInterceptor constructed yet
NoInterceptor ==
    [ built |-> FALSE, initialized |-> FALSE, warned |-> FALSE,
      pc |-> [c \in InitCalls |-> Idle] ]

Init ==
    /\ hooks = EmptyMap
    /\ eventIndex = EmptyMap
    /\ priorityIndex = EmptyMap
    /\ stats = EmptyMap
    /\ thrown = None
    /\ providerManager = "null"
    /\ batch = IdleBatch
    /\ calls = NoCalls
    /\ interceptor = NoInterceptor

-----------------------------------------------------------------------------
(* The handler store on its own: every registry and interceptor mutation *)

NextStore ==
    \/ \E cfg \in StoreCfgs : register(cfg)
    \/ \E id \in Ids : unregister(id)
    \/ \E id \in Ids : enable(id)
    \/ \E id \in Ids : disable(id)
    \/ \E id \in Ids, p \in StorePriorities : updatePriority(id, p)
    \/ \E id \in Ids : enableHook(id)
    \/ \E id \in Ids : disableHook(id)
    \/ \E id \in Ids : updateHookPriority(id, 0)

SpecStore == Init /\ [][NextStore]_vars

-----------------------------------------------------------------------------
(* Entry points: HookInterceptor.handleEvent / executeHookById, and a direct *)
(* HookExecutor.executeHook call with the caller's own hook object          *)

\* a hook object the caller built itself: the fields as written
RawHook(cfg) ==
    [ id               |-> cfg.id,
      name             |-> cfg.name,
      enabled          |-> IsSome(cfg.enabled) /\ Val(cfg.enabled),
      events           |-> cfg.events,
      handler          |-> Val(cfg.handler),
      filter           |-> cfg.filter,
      matcher          |-> cfg.matcher,
      priority         |-> OrNum(cfg.priority, 0),
      timeout          |-> cfg.timeout,
      retry            |-> cfg.retry,
      continueOnError  |-> cfg.continueOnError,
      exitCodeBlocking |-> cfg.exitCodeBlocking,
      executionCount   |-> 0,
      successCount     |-> 0,
      failureCount     |-> 0,
      lastError        |-> None ]

\* new HookExecutor(registry, logger, aiConfig), before the first dispatch: the
\* provider manager it ends up with
NewExecutor(pm) ==
    /\ batch.status = "idle"
    /\ providerManager' = pm
    /\ UNCHANGED <<hooks, eventIndex, priorityIndex, stats, thrown, batch, calls, interceptor>>

handleEvent(event, ctx, opts) ==
    /\ CanDispatch
    /\ LET hs == getHooksForEvent(event)
           b  == NewBatch("handleEvent", hs, TRUE, [ctx EXCEPT !.event = event], opts)
       IN  Commit(BeginBatch([b |-> b, reg |-> Registry]))
    /\ thrown' = None
    /\ UNCHANGED <<eventIndex, priorityIndex, providerManager, calls, interceptor>>

executeHookById(id, ctx, opts) ==
    /\ CanDispatch
    /\ IF ~Has(hooks, id)
       THEN /\ thrown' = NotFound
            /\ UNCHANGED <<hooks, stats, batch>>
       ELSE /\ LET hook == hooks[id]
                   b == NewBatch("executeHookById", <<hook>>, TRUE,
                                 [ctx EXCEPT !.event = hook.events[1]], opts)
               IN  Commit(BeginBatch([b |-> b, reg |-> Registry]))
            /\ thrown' = None
    /\ UNCHANGED <<eventIndex, priorityIndex, providerManager, calls, interceptor>>

executeHook(cfg, ctx, opts) ==
    /\ CanDispatch
    /\ LET b == NewBatch("executeHook", <<RawHook(cfg)>>, FALSE, ctx, opts)
       IN  Commit(BeginBatch([b |-> b, reg |-> Registry]))
    /\ thrown' = None
    /\ UNCHANGED <<eventIndex, priorityIndex, providerManager, calls, interceptor>>

-----------------------------------------------------------------------------
(* An attempt of handler i comes back *)

Running(i) ==
    /\ batch.status = "running"
    /\ i \in DOMAIN batch.inv
    /\ batch.inv[i].st = "running"

HandlerType(i) == batch.hooks[i].hook.handler.type

Step(S, i) ==
    /\ Commit(AfterStep(S, i))
    /\ UNCHANGED <<eventIndex, priorityIndex, thrown, providerManager, calls, interceptor>>

\* a callback or module function returns a value; the invocation keeps the
\* value as `returned`
AttemptReturns(i, raw, duration) ==
    /\ Running(i)
    /\ HandlerType(i) \in {"programmatic", "module"}
    /\ LET S == [b |-> [batch EXCEPT !.inv[i].returned = Some(raw)], reg |-> Registry]
       IN  Step(ReturnHook(S, i, NormalizeResult(raw), duration), i)

\* a spawned command (or script) closes; code Nothing: killed at the timeout
CommandCloses(i, code, duration) ==
    /\ Running(i)
    /\ HandlerType(i) \in {"command", "script"}
    /\ Step(ReturnHook([b |-> batch, reg |-> Registry], i, CloseResult(code), duration), i)

\* the handler throws (a callback, a module) or cannot be spawned (a command)
AttemptThrows(i, duration) ==
    /\ Running(i)
    /\ HandlerType(i) # "prompt"
    /\ Step(FailHook([b |-> batch, reg |-> Registry], i, "handler error", duration), i)

\* the timer of executeProgrammatic / executeModule fires first: the promise
\* is rejected, the call of the handler function goes on
AttemptTimesOut(i, duration) ==
    /\ Running(i)
    /\ HandlerType(i) \in {"programmatic", "module"}
    /\ LET S == [ b   |-> [batch EXCEPT !.inv[i].timedOut = @ \cup {batch.inv[i].attempt},
                                        !.inv[i].orphans = @ + 1],
                  reg |-> Registry ]
       IN  Step(FailHook(S, i, "timed out", duration), i)

\* executePrompt returns; answer is what the provider does if it is asked
PromptReturns(i, answer, duration) ==
    /\ Running(i)
    /\ HandlerType(i) = "prompt"
    /\ LET called == PromptCallsBackend(batch.ctx.event, providerManager)
           S == [ b   |-> [batch EXCEPT !.inv[i].backendCalls =
                                            IF called THEN @ + 1 ELSE @],
                  reg |-> Registry ]
       IN  Step(ReturnHook(S, i, executePrompt(batch.ctx.event, providerManager, answer),
                           duration), i)

-----------------------------------------------------------------------------
(* The executor with the store: inputs and next-state relation *)

Programmatic == [type |-> "programmatic"]

PromptHandler == [type |-> "prompt"]

\* retried twice, selected first, and carrying a tool matcher
CfgRetry ==
    [BaseCfg EXCEPT !.id = "h1", !.events = <<"PreToolUse", "SessionStart">>,
                    !.handler = Some(Programmatic), !.retry = Some(2),
                    !.priority = Some(10), !.matcher = "Write"]

\* blocks on exit code 0 and not on 2
CfgBlockZero ==
    [BaseCfg EXCEPT !.id = "h2", !.events = <<"PreToolUse">>,
                    !.handler = Some(Programmatic), !.exitCodeBlocking = Some({0})]

CfgPrompt ==
    [BaseCfg EXCEPT !.id = "h3",
                    !.events = <<"PostToolUse", "PreToolUse", "SessionStart">>,
                    !.handler = Some(PromptHandler), !.priority = Some(90),
                    !.retry = Some(1)]

CfgCommand == [BaseCfg EXCEPT !.id = "h4", !.events = <<"PostToolUse">>]

\* the definitions given to the store
ExecCfgs == {CfgRetry, CfgBlockZero, CfgPrompt}

\* the hook objects handed to executeHook directly; the last one leaves
\* `enabled` out
DirectCfgs ==
    { [CfgRetry EXCEPT !.enabled = Some(TRUE)],
      [CfgCommand EXCEPT !.enabled = Some(TRUE)],
      CfgCommand }

ExecIds == {"h1", "h2", "h3"}

NoMetadata ==
    [source |-> None, reason |-> None, agent_type |-> None, type |-> None, trigger |-> None]

ToolCtx(tool) == [NoContext EXCEPT !.tool = tool]

SessionCtx == [NoContext EXCEPT !.metadata = Some([NoMetadata EXCEPT !.source = "startup"])]

HandledEvents == {"PreToolUse", "PostToolUse", "SessionStart"}

DefaultOptions ==
    [parallel |-> FALSE, continueOnError |-> FALSE, retry |-> Nothing, timeout |-> Nothing]

ExecOptions ==
    { [DefaultOptions EXCEPT !.parallel = p, !.continueOnError = c] :
        p \in BOOLEAN, c \in BOOLEAN }

RawValues == {BoolValue(TRUE), NumValue(2), ObjValue(Some(TRUE), Some(2)), OtherValue}

CloseCodes == {Some(0), Some(2), Nothing}

Answers == {"ok", "notok", "fails"}

\* a manager without the provider it needs, and one with it
ProviderManagers == {"unregistered", "ready"}

Duration == 10

Next ==
    \/ \E cfg \in ExecCfgs : ~Has(hooks, cfg.id) /\ register(cfg)
    \/ \E pm \in ProviderManagers : NewExecutor(pm)
    \/ \E e \in HandledEvents, o \in ExecOptions : handleEvent(e, ToolCtx("Read"), o)
    \/ \E id \in ExecIds : executeHookById(id, ToolCtx("Read"), DefaultOptions)
    \/ \E cfg \in DirectCfgs, ctx \in {ToolCtx("Read"), ToolCtx("Write"), SessionCtx} :
          executeHook(cfg, [ctx EXCEPT !.event = cfg.events[1]], DefaultOptions)
    \/ \E i \in DOMAIN batch.inv, raw \in RawValues : AttemptReturns(i, raw, Duration)
    \/ \E i \in DOMAIN batch.inv, code \in CloseCodes : CommandCloses(i, code, Duration)
    \/ \E i \in DOMAIN batch.inv : AttemptThrows(i, Duration)
    \/ \E i \in DOMAIN batch.inv :
          batch.kind = "executeHook" /\ AttemptTimesOut(i, Duration)
    \/ \E i \in DOMAIN batch.inv, a \in Answers : PromptReturns(i, a, Duration)

Spec == Init /\ [][Next]_vars

-----------------------------------------------------------------------------
(* Properties of a batch *)

SequentialBatch == batch.kind = "handleEvent" /\ ~batch.parallel

ParallelBatch == batch.kind = "handleEvent" /\ batch.parallel

Done(i) == batch.inv[i].st = "done"

Invoked(i) == batch.inv[i].calls > 0

Blocked(i) == Done(i) /\ batch.inv[i].rec # <<>> /\ batch.inv[i].rec[1].blocked

Exhausted(i) == batch.inv[i].outcome = "exhausted"

\* handler i was not reached: never invoked, and no record of it
Untouched(i) ==
    /\ batch.inv[i] = PendingInv
    /\ \A k \in DOMAIN batch.results : batch.results[k].hookId # batch.hooks[i].hook.id

\* C1: in a sequential batch, once a handler's record is blocked the batch has
\* stopped: the blocked record is the last of the results, and every handler
\* after it was never invoked and has no record.
C1_BlockedStopsSequentialBatch ==
    SequentialBatch =>
        \A i \in DOMAIN batch.inv :
            Blocked(i) =>
                /\ batch.status = "done"
                /\ Len(batch.results) = i
                /\ batch.results[i] = batch.inv[i].rec[1]
                /\ \A j \in DOMAIN batch.inv : j > i => Untouched(j)

\* a sequential batch of three stopped at the blocked record of its first handler
C1_Witness ==
    /\ SequentialBatch
    /\ Len(batch.hooks) = 3
    /\ Blocked(1)
    /\ batch.status = "done"
    /\ Len(batch.results) = 1

\* the record executeHooks makes of a hard failure
IsFailedRecord(i) ==
    /\ batch.inv[i].rec # <<>>
    /\ ~batch.inv[i].rec[1].result.success
    /\ ~batch.inv[i].rec[1].blocked
    /\ i \in DOMAIN batch.results
    /\ batch.results[i] = batch.inv[i].rec[1]

\* the handlers are processed in list order, none before its predecessor is done
InOrder ==
    \A i, j \in DOMAIN batch.inv : (i < j /\ batch.inv[j] # PendingInv) => Done(i)

\* C2 (as amended): in a sequential batch a hard failure becomes a failed
\* record (success false, blocked false) and is never thrown out of the batch;
\* without continueOnError the batch stops there and no later handler is
\* invoked; with continueOnError the batch goes on with the later handlers in
\* order, and only a blocked record stops it before the end of the list.
C2_HardFailureInSequentialBatch ==
    SequentialBatch =>
        /\ batch.status # "threw" /\ batch.error = None
        /\ InOrder
        /\ \A i \in DOMAIN batch.inv :
              Exhausted(i) =>
                 /\ IsFailedRecord(i)
                 /\ ~batch.continueOnError =>
                       /\ batch.status = "done"
                       /\ Len(batch.results) = i
                       /\ \A j \in DOMAIN batch.inv : j > i => Untouched(j)
                 /\ batch.continueOnError =>
                       /\ (i + 1) \in DOMAIN batch.inv => batch.inv[i + 1] # PendingInv
                       /\ \A j \in DOMAIN batch.inv :
                             (batch.status = "done" /\ j > i /\ Untouched(j)) =>
                                \E k \in DOMAIN batch.inv : i < k /\ k < j /\ Blocked(k)

\* C2 (as stated): ... with continueOnError every later handler is still
\* processed in order.
C2_AsStated ==
    (SequentialBatch /\ batch.continueOnError /\ batch.status = "done") =>
        \A i \in DOMAIN batch.inv :
            Exhausted(i) => \A j \in DOMAIN batch.inv : j > i => Done(j)

\* continueOnError: the first handler failed for good and the next one came back
C2_Witness ==
    /\ SequentialBatch
    /\ batch.continueOnError
    /\ Len(batch.hooks) = 3
    /\ Exhausted(1)
    /\ Done(2) /\ Invoked(2) /\ ~Blocked(2)
    /\ Invoked(3)

\* C3: a parallel batch over n handlers starts every handler, is done only
\* when all of them are, and then holds exactly n records, the i-th being the
\* i-th handler's: a hard failure is that handler's failed record, and neither
\* it nor a blocked record keeps a sibling from running to its end.
C3_ParallelBatchRecords ==
    ParallelBatch =>
        /\ batch.status # "threw" /\ batch.error = None
        /\ \A i \in DOMAIN batch.inv : batch.inv[i].st # "pending"
        /\ batch.status = "done" <=> \A i \in DOMAIN batch.inv : Done(i)
        /\ batch.status = "done" =>
              /\ Len(batch.results) = Len(batch.hooks)
              /\ \A i \in DOMAIN batch.inv :
                    /\ batch.results[i].hookId = batch.hooks[i].hook.id
                    /\ batch.results[i] = batch.inv[i].rec[1]
                    /\ Exhausted(i) =>
                          /\ ~batch.results[i].result.success
                          /\ ~batch.results[i].blocked

\* three records: a hard failure, a blocked one, and a sibling that ran after both
C3_Witness ==
    /\ ParallelBatch
    /\ batch.status = "done"
    /\ Len(batch.results) = 3
    /\ Exhausted(1)
    /\ Blocked(2)
    /\ Invoked(3) /\ batch.results[3].result.success

-----------------------------------------------------------------------------
(* Properties of one invocation *)

\* the waits of a handler that was called n + 1 times
ExpectedWaits(n) == [k \in 1..n |-> 1000 * (k - 1)]

\* the retry count the handler was given (the batches pass no retry option)
RetryCount(i) == OrNum(batch.hooks[i].hook.retry, 0)

\* C4: with retry count r a handler is called at most r + 1 times, once more
\* after each failed attempt and never after a success or after the (r+1)-th
\* failure; the wait before retry i is 1000 * (i - 1) ms; with r = 2 and three
\* failures: three calls, waits of 0 and 1000 ms, and the ExecutionError thrown
\* to the caller of executeHook.
C4_RetrySchedule ==
    \A i \in DOMAIN batch.inv :
        LET inv == batch.inv[i]
            r   == RetryCount(i)
        IN  Invoked(i) =>
              /\ inv.maxRetries = r
              /\ inv.calls = inv.attempt + 1
              /\ inv.calls <= r + 1
              /\ inv.waits = ExpectedWaits(inv.calls - 1)
              /\ inv.st = "running" <=> inv.outcome = None
              /\ Exhausted(i) => inv.calls = r + 1
              /\ (Exhausted(i) /\ r = 2) => inv.calls = 3 /\ inv.waits = <<0, 1000>>
              /\ (Exhausted(i) /\ IsSingle(batch)) =>
                    batch.status = "threw" /\ batch.error = ExecutionError

\* retry 2, three failed calls, then the error
C4_Witness ==
    /\ batch.kind = "executeHookById"
    /\ RetryCount(1) = 2
    /\ Exhausted(1)
    /\ batch.inv[1].calls = 3
    /\ batch.inv[1].waits = <<0, 1000>>
    /\ batch.status = "threw"

\* the handler's blocking exit codes
BlockingCodes(i) ==
    IF IsSome(batch.hooks[i].hook.exitCodeBlocking)
    THEN Val(batch.hooks[i].hook.exitCodeBlocking)
    ELSE {2}

\* C5: a record made from an outcome is blocked exactly when the outcome's exit
\* code is one of the handler's blocking codes ({2} when it has none), whatever
\* its success flag; the record of a skipped handler and of a hard failure is
\* never blocked.
C5_BlockedIffBlockingCode ==
    \A i \in DOMAIN batch.inv :
        (Done(i) /\ batch.inv[i].rec # <<>>) =>
            LET rec == batch.inv[i].rec[1]
            IN  IF batch.inv[i].outcome = "returned"
                THEN rec.blocked <=> rec.result.exitCode \in BlockingCodes(i)
                ELSE ~rec.blocked

\* exit code 2 with success true is blocked under the default codes, and is
\* not blocked for a handler whose only blocking code is 0
C5_Witness ==
    /\ ParallelBatch
    /\ batch.status = "done"
    /\ Len(batch.results) = 3
    /\ batch.results[1].result.success /\ batch.results[1].result.exitCode = 2
    /\ batch.results[1].blocked
    /\ batch.results[2].result.exitCode = 2 /\ ~batch.results[2].blocked

\* handler i runs out of attempts in this step
Exhausts(i) ==
    /\ i \in DOMAIN batch.inv /\ i \in DOMAIN batch'.inv
    /\ batch.inv[i].st = "running"
    /\ batch'.inv[i].outcome = "exhausted"

\* C6: the step in which a handler's last attempt fails records the failure in
\* its stats (executions + 1, failures + 1, last error set, one entry more in
\* the error history), and a direct invocation of the handler (executeHook,
\* executeHookById) ends with the ExecutionError thrown to the caller.
C6_ExhaustionRecordedThenRaised ==
    [][ \A i \in DOMAIN batch.inv :
          Exhausts(i) =>
            LET id == batch.hooks[i].hook.id
            IN  /\ Has(stats, id) =>
                      /\ stats'[id].executions = stats[id].executions + 1
                      /\ stats'[id].failures = stats[id].failures + 1
                      /\ stats'[id].successes = stats[id].successes
                      /\ stats'[id].lastError # None
                      /\ Len(stats'[id].errorHistory) = Len(stats[id].errorHistory) + 1
                      /\ stats'[id].errorHistory[Len(stats'[id].errorHistory)]
                            = stats'[id].lastError
                /\ IsSingle(batch) =>
                      batch'.status = "threw" /\ batch'.error = ExecutionError
      ]_vars

\* executeHookById threw, and the stats hold the failure
C6_Witness ==
    /\ batch.kind = "executeHookById"
    /\ batch.status = "threw"
    /\ Has(stats, batch.hooks[1].hook.id)
    /\ stats[batch.hooks[1].hook.id].executions = 1
    /\ stats[batch.hooks[1].hook.id].failures = 1
    /\ Len(stats[batch.hooks[1].hook.id].errorHistory) = 1

-----------------------------------------------------------------------------
(* Properties of the store *)

\* C7 (as stated): after any sequence of register, unregister, enable, disable
\* and reprioritize, forEvent(e) is exactly the enabled handlers whose events
\* contain e, in non-decreasing priority order.
C7_ForEventExact ==
    \A e \in StoreEvents :
        LET r == getHooksForEvent(e)
        IN  /\ {r[k].id : k \in DOMAIN r} =
                  {id \in DOMAIN hooks : hooks[id].enabled /\ e \in Range(hooks[id].events)}
            /\ \A k \in DOMAIN r : (k + 1) \in DOMAIN r => r[k].priority <= r[k + 1].priority

-----------------------------------------------------------------------------
(* Properties of selection and of prompt handlers *)

\* the matcher handler i was defined with: its own for a hook object handed to
\* executeHook, the registered definition's for a hook taken from the store
MatcherGiven(i) ==
    IF batch.kind = "executeHook" THEN batch.hooks[i].hook.matcher
    ELSE (CHOOSE c \in ExecCfgs : c.id = batch.hooks[i].hook.id).matcher

NonWildcard(matcher) == Truthy(matcher) /\ matcher \notin {"*", ".*"}

\* C8 (as stated): a handler whose non-wildcard matcher does not match is
\* never invoked and gets a skip record (success, exit code 0, not blocked),
\* also when it was registered in the store and selected by handleEvent.
C8_NoMatchNeverInvoked ==
    \A i \in DOMAIN batch.inv :
        (NonWildcard(MatcherGiven(i)) /\ ~checkMatcher(MatcherGiven(i), batch.ctx)) =>
            /\ ~Invoked(i)
            /\ Done(i) =>
                  /\ batch.inv[i].outcome = "skipped"
                  /\ batch.inv[i].rec[1].result.success
                  /\ batch.inv[i].rec[1].result.exitCode = 0
                  /\ ~batch.inv[i].rec[1].blocked

IsPrompt(i) == batch.hooks[i].hook.handler.type = "prompt"

PromptAllowList ==
    { "PreToolUse", "PostToolUse", "PostToolUseFailure",
      "PermissionRequest", "UserPromptSubmit", "SubagentStop" }

\* C10: a prompt handler run for an event outside the allow-list returns
\* success with exit code 0, and the provider manager is not called.
C10_NonDecisionEventSkipsBackend ==
    \A i \in DOMAIN batch.inv :
        (IsPrompt(i) /\ batch.ctx.event \notin PromptAllowList) =>
            /\ batch.inv[i].backendCalls = 0
            /\ (Done(i) /\ batch.inv[i].outcome = "returned") =>
                  /\ batch.inv[i].rec[1].result.success
                  /\ batch.inv[i].rec[1].result.exitCode = 0

\* session-start, a provider manager at hand, and the handler came back
C10_Witness ==
    \E i \in DOMAIN batch.inv :
        /\ IsPrompt(i)
        /\ batch.ctx.event = "SessionStart"
        /\ providerManager = "ready"
        /\ batch.inv[i].outcome = "returned"
        /\ batch.inv[i].backendCalls = 0

-----------------------------------------------------------------------------
(* Properties of prompt decisions and of the batch summary *)

\* C11: when the provider manager answers, a prompt handler run for PreToolUse
\* or PermissionRequest returns permission decision allow (ok) or deny (not
\* ok); run for any other decision event it returns decision continue with
\* exit code 0 (ok) or decision block with exit code 2 (not ok), and the block
\* makes the record blocked under the default blocking codes.
C11_PromptDecisionMapping ==
    [][ \A i \in DOMAIN batch.inv, a \in {"ok", "notok"} :
          ( /\ PromptReturns(i, a, Duration)
            /\ batch.ctx.event \in PromptAllowList
            /\ providerManager = "ready" ) =>
              LET rec == batch'.inv[i].rec[1]
                  ok  == (a = "ok")
              IN  /\ rec.result.success
                  /\ IF batch.ctx.event \in {"PreToolUse", "PermissionRequest"}
                     THEN /\ rec.result.permissionDecision = IF ok THEN "allow" ELSE "deny"
                          /\ rec.result.decision = None
                     ELSE /\ rec.result.decision = IF ok THEN "continue" ELSE "block"
                          /\ rec.result.exitCode = IF ok THEN 0 ELSE 2
                          /\ rec.result.permissionDecision = None
                          /\ BlockingCodes(i) = {2} => (rec.blocked <=> ~ok)
      ]_vars

\* post-tool-use: the manager said no, the record says block and is blocked
C11_Witness ==
    \E i \in DOMAIN batch.inv :
        /\ IsPrompt(i)
        /\ batch.ctx.event = "PostToolUse"
        /\ batch.inv[i].backendCalls = 1
        /\ Done(i)
        /\ batch.inv[i].rec[1].result.decision = "block"
        /\ batch.inv[i].rec[1].result.exitCode = 2
        /\ batch.inv[i].rec[1].blocked

\* the summary executeHooks returned with the results
Summary == Val(batch.summary)

\* C12: the summary of a batch, sequential or parallel: total is the number of
\* records, successful and failed count the records by their success flag (so
\* they add up to total), blocked counts the blocked records whatever their
\* success flag, averageDuration is the mean of the durations (0 without
\* records), and errors has one entry per failed record, in order.
C12_SummaryCounts ==
    (batch.kind = "handleEvent" /\ batch.status = "done") =>
        LET rs     == batch.results
            failed == {k \in DOMAIN rs : ~rs[k].result.success}
        IN  /\ IsSome(batch.summary)
            /\ Summary.total = Len(rs)
            /\ Summary.successful = Cardinality({k \in DOMAIN rs : rs[k].result.success})
            /\ Summary.failed = Cardinality(failed)
            /\ Summary.successful + Summary.failed = Summary.total
            /\ Summary.blocked = Cardinality({k \in DOMAIN rs : rs[k].blocked})
            /\ Summary.averageDuration.den > 0
            /\ Summary.averageDuration.num * Len(rs)
                  = SumDurations(rs) * Summary.averageDuration.den
            /\ rs = <<>> => Summary.averageDuration.num = 0
            /\ Len(Summary.errors) = Cardinality(failed)
            /\ \A k \in failed :
                  Summary.errors[Cardinality({j \in failed : j <= k})].hookId = rs[k].hookId

\* three records: one successful and blocked, one failed, one plain success
C12_Witness ==
    /\ batch.kind = "handleEvent"
    /\ batch.status = "done"
    /\ Len(batch.results) = 3
    /\ \E k \in 1..3 : batch.results[k].result.success /\ batch.results[k].blocked
    /\ Summary.successful = 2
    /\ Summary.failed = 1
    /\ Summary.blocked >= 1
    /\ Summary.averageDuration.num > 0

-----------------------------------------------------------------------------
(* Properties of the store: ids, removal, unknown ids, ties *)

NoDuplicates(seq) == \A i, j \in DOMAIN seq : seq[i] = seq[j] => i = j

\* C13 (as stated): ids are unique within the store after any sequence of
\* operations, register of a registered id included: an id occurs at most
\* once in every event's index, and forEvent(e) never returns a handler twice.
C13_IdsUnique ==
    /\ \A e \in DOMAIN eventIndex : NoDuplicates(eventIndex[e])
    /\ \A e \in StoreEvents : NoDuplicates(HookIds(getHooksForEvent(e)))

StoreUnchanged == UNCHANGED <<hooks, eventIndex, priorityIndex, stats>>

\* C16 (as stated): unregister(id) of a registered handler removes it from the
\* id map, from every event's index and from the stats, and leaves no empty
\* index behind; unregister of an unknown id fails and changes nothing.
C16_UnregisterPurges ==
    [][ \A id \in Ids :
          unregister(id) =>
            IF Has(hooks, id)
            THEN /\ ~Has(hooks', id)
                 /\ ~Has(stats', id)
                 /\ \A e \in DOMAIN eventIndex' :
                       /\ id \notin Range(eventIndex'[e])
                       /\ eventIndex'[e] # <<>>
            ELSE thrown' = NotFound /\ StoreUnchanged
      ]_vars

\* the store with every handler on one event: registrations, removals, and
\* the enable, disable and priority changes of registry and interceptor
OneEventCfgs == { cfg \in StoreCfgs : cfg.events = <<"SessionStart">> }

NextTies ==
    \/ \E cfg \in OneEventCfgs : register(cfg)
    \/ \E id \in Ids : unregister(id)
    \/ \E id \in Ids : enable(id)
    \/ \E id \in Ids : disable(id)
    \/ \E id \in Ids, p \in StorePriorities : updatePriority(id, p)
    \/ \E id \in Ids : enableHook(id)
    \/ \E id \in Ids : disableHook(id)
    \/ \E id \in Ids : updateHookPriority(id, 0)

SpecTies == Init /\ [][NextTies]_vars

\* C17: enable, disable and reprioritize with an id the store does not hold,
\* through the registry or the interceptor, fail with "Hook not found" and
\* leave the handlers, both indexes and the stats as they were.
C17_UnknownIdRejected ==
    [][ \A id \in Ids :
          ( /\ ~Has(hooks, id)
            /\ \/ enable(id) \/ disable(id)
               \/ enableHook(id) \/ disableHook(id)
               \/ \E p \in StorePriorities : updatePriority(id, p)
               \/ updateHookPriority(id, 0) ) =>
              thrown' = NotFound /\ StoreUnchanged
      ]_vars

\* a call on an unknown id was refused while another handler is stored
C17_Witness ==
    /\ thrown = NotFound
    /\ Has(hooks, "h1")
    /\ ~Has(hooks, "h2")
    /\ Has(eventIndex, "SessionStart")

RECURSIVE IdsAtPriority(_, _, _)
\* the ids of the list that are stored, enabled and of priority p, in list order
IdsAtPriority(hs, ids, p) ==
    IF ids = <<>> THEN <<>>
    ELSE LET id   == Head(ids)
             rest == IdsAtPriority(hs, Tail(ids), p)
         IN  IF Has(hs, id) /\ hs[id].enabled /\ hs[id].priority = p
             THEN <<id>> \o rest
             ELSE rest

\* C19: in forEvent(e) the enabled handlers of one priority come in the order
\* in which their ids stand in the event's index.
C19_TiesKeepIndexOrder ==
    \A e \in StoreEvents :
        \A p \in {hooks[id].priority : id \in DOMAIN hooks} :
            IdsAtPriority(hooks, HookIds(getHooksForEvent(e)), p)
                = IdsAtPriority(hooks, IF Has(eventIndex, e) THEN eventIndex[e] ELSE <<>>, p)

\* h2 was added before h1, both have one priority after a reprioritize, and
\* forEvent returns h2 first
C19_Witness ==
    \E e \in StoreEvents :
        /\ Has(eventIndex, e)
        /\ eventIndex[e] = <<"h2", "h1">>
        /\ HookIds(getHooksForEvent(e)) = <<"h2", "h1">>
        /\ hooks["h1"].priority = 0
        /\ hooks["h2"].priority = 0

-----------------------------------------------------------------------------
(* Registration and priorities on their own: every definition register() can *)
(* be given, well formed or not, and every priority a caller can ask for     *)

RegisterPriorities == {Nothing, Some(0), Some(0 - 1), Some(1001)}

RegisterCfgs ==
    InvalidCfgs \cup
    { [BaseCfg EXCEPT !.id = i, !.priority = p] : i \in Ids, p \in RegisterPriorities }

RequestedPriorities == {0 - 1, 0, 1000, 1001}

NextRegister ==
    \/ \E cfg \in RegisterCfgs : register(cfg)
    \/ \E id \in Ids : unregister(id)
    \/ \E id \in Ids, p \in RequestedPriorities : updatePriority(id, p)
    \/ \E id \in Ids, p \in RequestedPriorities : updateHookPriority(id, p)

SpecRegister == Init /\ [][NextRegister]_vars

\* C14 (as stated): every handler held in the store has a priority within
\* [0, 1000] after any sequence of register, registry reprioritize and
\* interceptor reprioritize operations.
C14_PriorityInRange ==
    \A id \in DOMAIN hooks : hooks[id].priority >= 0 /\ hooks[id].priority <= 1000

\* C15: register of a definition without an id, a name, an event or a handler
\* fails with the validation error of the first field that is missing, and
\* the id map, both indexes and the stats are as before the call.
C15_InvalidRegisterChangesNothing ==
    [][ \A cfg \in InvalidCfgs :
          register(cfg) =>
              /\ thrown' \in { "Hook ID is required", "Hook name is required",
                               "Hook must have at least one event",
                               "Hook handler is required" }
              /\ ~Truthy(cfg.id) => thrown' = "Hook ID is required"
              /\ cfg.events = <<>> => thrown' = "Hook must have at least one event"
              /\ StoreUnchanged
      ]_vars

\* a definition without events was refused by a store that holds a handler
C15_Witness ==
    /\ thrown = "Hook must have at least one event"
    /\ Has(hooks, "h1")
    /\ Has(stats, "h1")
    /\ Has(eventIndex, "SessionStart")

-----------------------------------------------------------------------------
(* The event indexes on their own: register, unregister, updateEvents, clear *)

EventLists ==
    { <<>>, <<"SessionStart">>, <<"PreToolUse">>, <<"SessionStart", "PreToolUse">> }

NextEvents ==
    \/ \E cfg \in StoreCfgs : register(cfg)
    \/ \E id \in Ids : unregister(id)
    \/ \E id \in Ids, events \in EventLists : updateEvents(id, events)
    \/ clear

SpecEvents == Init /\ [][NextEvents]_vars

\* C18 (as stated): after any sequence of register, unregister, updateEvents
\* and clear, the index of event e lists id h if and only if h is stored and e
\* is among h's current events.
C18_IndexMatchesEvents ==
    \A e \in StoreEvents, id \in Ids :
        (Has(eventIndex, e) /\ id \in Range(eventIndex[e]))
            <=> (Has(hooks, id) /\ e \in Range(hooks[id].events))

-----------------------------------------------------------------------------
(* The matcher test on its own: executeHook over matchers, events, contexts *)

HookEvents ==
    { "SessionStart", "SessionEnd", "UserPromptSubmit", "PreToolUse", "PostToolUse",
      "PostToolUseFailure", "PermissionRequest", "Notification", "SubagentStart",
      "SubagentStop", "PreCompact", "Stop", "TeammateIdle", "TaskCompleted" }

Wildcards == {"*", "", ".*"}

Matchers == Wildcards \cup {None, "Write", "startup"}

MatcherCtxs ==
    { [NoContext EXCEPT !.event = e, !.tool = t, !.metadata = md] :
        e \in HookEvents, t \in {None, "Read"}, md \in {Nothing, SessionCtx.metadata} }

NextMatcher ==
    \/ \E m \in Matchers, ctx \in MatcherCtxs :
          executeHook([CfgCommand EXCEPT !.enabled = Some(TRUE), !.matcher = m],
                      ctx, DefaultOptions)
    \/ \E i \in DOMAIN batch.inv, code \in CloseCodes : CommandCloses(i, code, Duration)
    \/ \E i \in DOMAIN batch.inv : AttemptThrows(i, Duration)

SpecMatcher == Init /\ [][NextMatcher]_vars

\* C20: a handler without a matcher, or with one of the wildcard forms "*",
\* "" and ".*", passes the matcher test for every event and every context, a
\* context without tool name and metadata included: the handler is invoked
\* and its record is not a skip.
C20_WildcardAlwaysPasses ==
    (batch.kind = "executeHook"
        /\ batch.hooks[1].hook.matcher \in Wildcards \cup {None}) =>
        /\ batch.hooks[1].hook.matcher # None
              => checkMatcher(batch.hooks[1].hook.matcher, batch.ctx)
        /\ Invoked(1)
        /\ batch.inv[1].outcome # "skipped"

\* matcher "*", an event without a matcher target, no tool, no metadata: run
C20_Witness ==
    /\ batch.kind = "executeHook"
    /\ batch.hooks[1].hook.matcher = "*"
    /\ batch.ctx.event = "Stop"
    /\ batch.ctx.tool = None
    /\ batch.ctx.metadata = Nothing
    /\ Invoked(1)
    /\ batch.inv[1].outcome = "returned"

-----------------------------------------------------------------------------
(* Properties of the matcher target *)

\* the events of a tool call
ToolRelatedEvents == {"PreToolUse", "PostToolUse", "PostToolUseFailure", "PermissionRequest"}

\* the target string the event type alone fixes: the tool name for a tool
\* event, the event's metadata field otherwise, None when there is none
TargetByEvent(ctx) ==
    IF ctx.event \in ToolRelatedEvents
    THEN (IF Truthy(ctx.tool) THEN ctx.tool ELSE None)
    ELSE getMatcherTargetForEvent(ctx.event, ctx.metadata)

\* C21 (as stated): a non-wildcard matcher is tested against the target the
\* event type fixes (tool name for tool events, metadata.source for
\* SessionStart, ...); the handler runs exactly when that target is present
\* and matches, whatever else (a tool name) the context carries.
C21_TargetFixedByEvent ==
    (batch.kind = "executeHook" /\ NonWildcard(batch.hooks[1].hook.matcher)) =>
        LET target == TargetByEvent(batch.ctx)
        IN  Invoked(1) <=>
                (target # None /\ RegexTest(batch.hooks[1].hook.matcher, target))

-----------------------------------------------------------------------------
(* Selection on its own: executeHook over enabled flags, matchers, filters *)

Filters ==
    { Nothing,
      Some([NoFilter EXCEPT !.tools = Some({"Write"})]),
      Some([NoFilter EXCEPT !.commands = Some({"npm install"})]),
      Some([NoFilter EXCEPT !.tools = Some({"Write"}), !.commands = Some({"npm install"})]),
      Some([NoFilter EXCEPT !.patterns = Some({".env"})]),
      Some([NoFilter EXCEPT !.users = Some({"alice"})]),
      Some([NoFilter EXCEPT !.projects = Some({"p1"})]),
      Some([NoFilter EXCEPT !.environments = Some({"production"})]),
      Some([NoFilter EXCEPT !.tools = Some({"Write"}), !.environments = Some({"development"})]) }

\* the hook objects: `enabled` true, false or left out
FilterCfgs ==
    { [CfgCommand EXCEPT !.enabled = en, !.matcher = m, !.filter = f] :
        en \in {Some(TRUE), Some(FALSE), Nothing}, m \in {None, "Write"}, f \in Filters }

FilterCtxs ==
    { [NoContext EXCEPT !.event = "PreToolUse", !.tool = t, !.command = c] :
        t \in {None, "Read", "Write"}, c \in {None, "", "ls", "npm install lodash"} }
    \cup
    { [NoContext EXCEPT !.event = "PreToolUse", !.tool = "Write", !.input = in,
                        !.userId = u, !.projectId = u, !.envName = env] :
        in \in {None, "{}", "{\"file\":\"a.env\"}"},
        u \in {None, "alice", "p1"},
        env \in {"development", "production"} }

NextFilter ==
    \/ \E cfg \in FilterCfgs, ctx \in FilterCtxs : executeHook(cfg, ctx, DefaultOptions)
    \/ \E i \in DOMAIN batch.inv, code \in CloseCodes : CommandCloses(i, code, Duration)
    \/ \E i \in DOMAIN batch.inv : AttemptThrows(i, Duration)

SpecFilter == Init /\ [][NextFilter]_vars

\* the filter of the hook object given to executeHook, when it has reached
\* the filter test: enabled, and the matcher absent or matching
FilterTested ==
    /\ batch.kind = "executeHook"
    /\ batch.hooks[1].hook.enabled
    /\ Truthy(batch.hooks[1].hook.matcher)
          => RegexTest(batch.hooks[1].hook.matcher, batch.ctx.tool)
    /\ IsSome(batch.hooks[1].hook.filter)

GivenFilter == Val(batch.hooks[1].hook.filter)

\* the record of an early return with the text `why`
SkippedAs(i, why) ==
    /\ Done(i)
    /\ ~Invoked(i)
    /\ batch.inv[i].rec[1].result.stdout = why
    /\ batch.inv[i].rec[1].result.success
    /\ batch.inv[i].rec[1].result.exitCode = 0
    /\ ~batch.inv[i].rec[1].blocked

\* the context's command contains one of the listed substrings
CommandListed ==
    /\ batch.ctx.command \notin {None, ""}
    /\ \E cmd \in Val(GivenFilter.commands) : Includes(batch.ctx.command, cmd)

\* C22: with a commands list in the filter, a context whose command is
\* missing or "" fails the filter, and so does one whose command contains
\* none of the listed substrings; the handler is then not invoked and its
\* record is the "Filter did not match" skip.  An invoked handler had a
\* command that contains a listed substring.
C22_CommandsFilter ==
    (FilterTested /\ IsSome(GivenFilter.commands)) =>
        /\ ~CommandListed => SkippedAs(1, "Filter did not match")
        /\ Invoked(1) => CommandListed

\* commands: ["npm install"], no command in the context: skipped
C22_Witness ==
    /\ FilterTested
    /\ GivenFilter.commands = Some({"npm install"})
    /\ GivenFilter.tools = Nothing
    /\ batch.ctx.command = None
    /\ SkippedAs(1, "Filter did not match")

\* a present sub-condition of the given filter passes, as the filter is
\* described: membership or containment of the context's value
ToolListed == batch.ctx.tool # None /\ batch.ctx.tool \in Val(GivenFilter.tools)

\* C23 (as stated): with a tools list in the filter, the filter passes only
\* when the context's tool is in the list, a context without a tool
\* included: a handler that is invoked had a listed tool.
C23_ToolsFilter ==
    (FilterTested /\ IsSome(GivenFilter.tools)) => (Invoked(1) => ToolListed)

-----------------------------------------------------------------------------
(* Properties of a disabled handler *)

\* C24: a handler that is not enabled is never invoked; its record is a
\* success with exit code 0 that does not block, and it carries the text
\* "Hook disabled" also when the matcher or the filter would have failed, so
\* it differs from the matcher and the filter skip records.
C24_DisabledSkippedFirst ==
    (batch.kind = "executeHook" /\ ~batch.hooks[1].hook.enabled) =>
        /\ SkippedAs(1, "Hook disabled")
        /\ batch.inv[1].rec[1].result.stdout
              \notin {"Matcher did not match", "Filter did not match"}
        /\ stats = EmptyMap

\* disabled, with a matcher that does not match and a filter that fails
C24_Witness ==
    /\ batch.kind = "executeHook"
    /\ batch.hooks[1].hook.enabled = FALSE
    /\ batch.hooks[1].hook.matcher = "Write"
    /\ batch.ctx.tool = "Read"
    /\ IsSome(batch.hooks[1].hook.filter)
    /\ GivenFilter.commands = Some({"npm install"})
    /\ batch.ctx.command = None
    /\ SkippedAs(1, "Hook disabled")

-----------------------------------------------------------------------------
(* Effective options on their own: executeHook over timeouts and retries *)

HookTimeouts == {Nothing, Some(0), Some(1000)}

HookRetries == {Nothing, Some(0), Some(2)}

OptionTimeouts == {Nothing, Some(0), Some(5000)}

OptionRetries == {Nothing, Some(0), Some(1)}

OptionCfgs ==
    { [CfgRetry EXCEPT !.enabled = Some(TRUE), !.matcher = None,
                       !.timeout = t, !.retry = r] :
        t \in HookTimeouts, r \in HookRetries }

OverrideOptions ==
    { [DefaultOptions EXCEPT !.timeout = t, !.retry = r] :
        t \in OptionTimeouts, r \in OptionRetries }

NextOptions ==
    \/ \E cfg \in OptionCfgs, o \in OverrideOptions :
          executeHook(cfg, [NoContext EXCEPT !.event = "PreToolUse"], o)
    \/ \E i \in DOMAIN batch.inv : AttemptReturns(i, BoolValue(TRUE), Duration)
    \/ \E i \in DOMAIN batch.inv : AttemptThrows(i, Duration)
    \/ \E i \in DOMAIN batch.inv : AttemptTimesOut(i, Duration)

SpecOptions == Init /\ [][NextOptions]_vars

\* the first value of the list that is given, or the default
Precedence(override, own, default) ==
    IF override # Nothing THEN Val(override)
    ELSE IF own # Nothing THEN Val(own)
    ELSE default

\* a timeout of 0 read as an absent one
ZeroAsAbsent(o) == IF o = Some(0) THEN Nothing ELSE o

\* the retry count by precedence, and no attempt beyond it
RetriesByPrecedence ==
    /\ batch.inv[1].maxRetries =
          Precedence(batch.retry, batch.hooks[1].hook.retry, 0)
    /\ batch.inv[1].calls <= 1 + batch.inv[1].maxRetries
    /\ batch.retry = Some(0) => batch.inv[1].calls = 1

\* C25 (as stated): the timeout and the retry count of an invocation are the
\* call's override when it is present, else the handler's own value when it
\* is present, else 30000 ms and 0 retries.
C25_AsStated ==
    (batch.kind = "executeHook" /\ Invoked(1)) =>
        /\ batch.inv[1].timeout =
              Precedence(batch.timeout, batch.hooks[1].hook.timeout, 30000)
        /\ RetriesByPrecedence

\* C25: the timeout and the retry count of an invocation are the call's
\* override, else the handler's own value, else 30000 ms and 0 retries,
\* where a timeout of 0 counts as absent at either level while a retry
\* override of 0 is an override: it leaves a handler with retries one attempt.
C25_EffectiveOptions ==
    (batch.kind = "executeHook" /\ Invoked(1)) =>
        /\ batch.inv[1].timeout =
              Precedence(ZeroAsAbsent(batch.timeout),
                         ZeroAsAbsent(batch.hooks[1].hook.timeout), 30000)
        /\ RetriesByPrecedence

\* retry override 0 on a handler with 2 retries: the one attempt failed and
\* the invocation is over; the timeout is the handler's own
C25_Witness ==
    /\ batch.kind = "executeHook"
    /\ batch.retry = Some(0)
    /\ batch.hooks[1].hook.retry = Some(2)
    /\ batch.timeout = Nothing
    /\ batch.hooks[1].hook.timeout = Some(1000)
    /\ batch.inv[1].timeout = 1000
    /\ batch.inv[1].outcome = "exhausted"
    /\ batch.inv[1].calls = 1

-----------------------------------------------------------------------------
(* Timeouts on their own: executeHook over the handler variants *)

\* the `timeout` option of spawn ends the child with the kill signal when it
\* has run that long; the child process emits no 'timeout' event, so the
\* attempt settles in the 'close' listener with code null
CommandTimesOut(i, duration) ==
    /\ Running(i)
    /\ HandlerType(i) \in {"command", "script"}
    /\ LET S == [ b   |-> [batch EXCEPT !.inv[i].timedOut = @ \cup {batch.inv[i].attempt}],
                  reg |-> Registry ]
       IN  Step(ReturnHook(S, i, CloseResult(Nothing), duration), i)

\* the handler function of an attempt that timed out settles at last; its
\* promise was rejected already, so nothing comes of it
OrphanFinishes(i) ==
    /\ i \in DOMAIN batch.inv
    /\ batch.inv[i].orphans > 0
    /\ batch' = [batch EXCEPT !.inv[i].orphans = @ - 1]
    /\ UNCHANGED <<hooks, eventIndex, priorityIndex, stats, thrown, providerManager, calls, interceptor>>

HandlerVariants ==
    { [type |-> "command"], [type |-> "script"], [type |-> "module"],
      [type |-> "programmatic"] }

TimeoutCfgs ==
    { [CfgCommand EXCEPT !.id = id, !.enabled = Some(TRUE), !.handler = Some(h),
                         !.retry = r, !.timeout = Some(1000)] :
        id \in {"h1", "h4"}, h \in HandlerVariants, r \in {Nothing, Some(1), Some(2)} }

NextTimeout ==
    \/ register([CfgCommand EXCEPT !.id = "h1"])
    \/ \E cfg \in TimeoutCfgs :
          executeHook(cfg, [NoContext EXCEPT !.event = "PostToolUse"], DefaultOptions)
    \/ \E i \in DOMAIN batch.inv : AttemptReturns(i, BoolValue(TRUE), Duration)
    \/ \E i \in DOMAIN batch.inv, code \in CloseCodes : CommandCloses(i, code, Duration)
    \/ \E i \in DOMAIN batch.inv : AttemptThrows(i, Duration)
    \/ \E i \in DOMAIN batch.inv : AttemptTimesOut(i, Duration)
    \/ \E i \in DOMAIN batch.inv : CommandTimesOut(i, Duration)
    \/ \E i \in DOMAIN batch.inv : OrphanFinishes(i)

SpecTimeout == Init /\ [][NextTimeout]_vars

\* C26 (as stated): an attempt that ran beyond the timeout is a failed
\* attempt for every handler variant: while attempts remain the next one has
\* started, and the last attempt's timeout ends the invocation as exhausted;
\* an attempt that timed out never gives a returned outcome.
C26_TimeoutIsFailedAttempt ==
    \A i \in DOMAIN batch.inv :
        \A a \in batch.inv[i].timedOut :
            /\ a < batch.inv[i].maxRetries => batch.inv[i].attempt > a
            /\ a = batch.inv[i].maxRetries =>
                  /\ Done(i)
                  /\ batch.inv[i].outcome = "exhausted"

\* C27 (as stated): when an attempt times out its work is ended: nothing of
\* a timed-out attempt is still running while a later attempt of the
\* invocation runs, nor after the invocation is over.
C27_TimedOutWorkEnded ==
    \A i \in DOMAIN batch.inv :
        (Running(i) \/ Done(i)) => batch.inv[i].orphans = 0

-----------------------------------------------------------------------------
(* Statistics under a parallel batch: the same handler several times over *)

CfgFirst ==
    [BaseCfg EXCEPT !.id = "h1", !.events = <<"PreToolUse">>,
                    !.handler = Some(Programmatic)]

CfgSecond ==
    [BaseCfg EXCEPT !.id = "h2", !.events = <<"PreToolUse">>,
                    !.handler = Some(Programmatic), !.retry = Some(1)]

ParallelOptions == [DefaultOptions EXCEPT !.parallel = TRUE]

\* the store is changed between dispatches only; an id registered again is
\* listed again in the event's index and is run once per entry.  A direct
\* call with a disabled hook object of a registered id is a skip.
NextParallel ==
    \/ \E cfg \in {CfgFirst, CfgSecond} : batch.status # "running" /\ register(cfg)
    \/ handleEvent("PreToolUse", ToolCtx("Read"), ParallelOptions)
    \/ \E en \in BOOLEAN :
          executeHook([CfgFirst EXCEPT !.enabled = Some(en)], ToolCtx("Read"), DefaultOptions)
    \/ \E i \in DOMAIN batch.inv, b \in BOOLEAN : AttemptReturns(i, BoolValue(b), Duration)
    \/ \E i \in DOMAIN batch.inv : AttemptThrows(i, Duration)

SpecParallel == Init /\ [][NextParallel]_vars

\* the invocations of handler id that end in this step with the given
\* outcomes: over in the next state, and not over in this batch before
EndedNow(id, outcomes) ==
    { i \in DOMAIN batch'.inv :
        /\ batch'.hooks[i].hook.id = id
        /\ batch'.inv[i].outcome \in outcomes
        /\ ~(batch.status = "running" /\ batch.inv[i].st = "done") }

SucceededNow(id) ==
    { i \in EndedNow(id, {"returned"}) : batch'.inv[i].rec[1].result.success }

StatsBefore(id) == IF Has(stats, id) THEN stats[id] ELSE InitialStats

EndedInBatch(id) ==
    { i \in DOMAIN batch.inv :
        batch.hooks[i].hook.id = id /\ batch.inv[i].outcome \in {"returned", "exhausted"} }

-----------------------------------------------------------------------------
(* Statistics on their own: updateStats and recordError called directly *)

\* most updateStats calls a caller makes
MaxOutcomes == 3

\* registry.updateStats(id, duration, success)
UpdateStatsCall(id, duration, success) ==
    /\ Len(calls.outcomes["h1"]) + Len(calls.outcomes["h2"]) < MaxOutcomes
    /\ LET reg == updateStats(Registry, id, duration, success, FALSE)
       IN  /\ hooks' = reg.hooks
           /\ stats' = reg.stats
    /\ calls' = [calls EXCEPT !.outcomes[id] =
                    Append(@, [duration |-> duration, success |-> success])]
    /\ UNCHANGED <<eventIndex, priorityIndex, thrown, providerManager, batch, interceptor>>

Durations == {100, 200, 300}

NextAverage ==
    \/ ~Has(hooks, "h1") /\ calls = NoCalls /\ register([BaseCfg EXCEPT !.id = "h1"])
    \/ \E d \in Durations, ok \in BOOLEAN :
          Has(hooks, "h1") /\ UpdateStatsCall("h1", d, ok)
    \/ UpdateStatsCall("h2", 100, TRUE)

SpecAverage == Init /\ [][NextAverage]_vars

RECURSIVE SumOfDurations(_)
SumOfDurations(outcomes) ==
    IF outcomes = <<>> THEN 0
    ELSE Head(outcomes).duration + SumOfDurations(Tail(outcomes))

-----------------------------------------------------------------------------
(* The error history on its own: recordError called over and over *)

\* most recordError calls a caller makes
MaxErrors == 102

\* registry.recordError(id, new Error(`Error ${k}`)), k the number of the call
\* for that id, from 0
RecordErrorCall(id) ==
    /\ Len(calls.errors["h1"]) + Len(calls.errors["h2"]) < MaxErrors
    /\ LET message == Len(calls.errors[id])
           reg == recordError(Registry, id, message)
       IN  /\ hooks' = reg.hooks
           /\ stats' = reg.stats
           /\ calls' = [calls EXCEPT !.errors[id] = Append(@, message)]
    /\ UNCHANGED <<eventIndex, priorityIndex, thrown, providerManager, batch, interceptor>>

NextErrors ==
    \/ ~Has(hooks, "h1") /\ calls = NoCalls /\ register([BaseCfg EXCEPT !.id = "h1"])
    \/ Has(hooks, "h1") /\ RecordErrorCall("h1")
    \/ Len(calls.errors["h2"]) < 2 /\ RecordErrorCall("h2")
    \/ UpdateStatsCall("h2", 100, FALSE)

SpecErrors == Init /\ [][NextErrors]_vars

\* the last n elements of a sequence
LastOf(seq, n) == SubSeq(seq, Len(seq) - n + 1, Len(seq))

Min(a, b) == IF a <= b THEN a ELSE b

\* C30: after m recordError calls for a registered handler its error history
\* holds the last min(m, 100) errors in arrival order, never more than 100,
\* and the last error is the most recent one; recordError and updateStats for
\* an id that is not registered change nothing and raise nothing.
C30_ErrorHistoryBounded ==
    /\ \A id \in CallIds :
          Has(stats, id) =>
              LET m == Len(calls.errors[id])
              IN  /\ Len(stats[id].errorHistory) <= 100
                  /\ stats[id].errorHistory = LastOf(calls.errors[id], Min(m, 100))
                  /\ m > 0 => /\ stats[id].lastError = calls.errors[id][m]
                              /\ hooks[id].lastError = calls.errors[id][m]
    /\ ~Has(stats, "h2")
    /\ ~Has(hooks, "h2")
    /\ thrown = None

\* 101 errors recorded: error 0 is gone and error 1 is the oldest of 100;
\* both calls were also made for the id that is not registered
C30_Witness ==
    /\ Has(stats, "h1")
    /\ Len(calls.errors["h1"]) = 101
    /\ Len(calls.errors["h2"]) = 1
    /\ Len(calls.outcomes["h2"]) = 1
    /\ Len(stats["h1"].errorHistory) = 100
    /\ stats["h1"].errorHistory[1] = 1
    /\ stats["h1"].errorHistory[100] = 100
    /\ stats["h1"].lastError = 100

-----------------------------------------------------------------------------
(* Normalisation on its own: executeHook over what a callback returns *)

ReturnedValues ==
    { BoolValue(b) : b \in BOOLEAN }
    \cup { NumValue(n) : n \in {0, 1, 2} }
    \cup { ObjValue(s, c) : s \in {Nothing, Some(TRUE), Some(FALSE)},
                            c \in {Nothing, Some(0), Some(2)} }
    \cup { OtherValue }

NormalizeCfgs ==
    { [CfgCommand EXCEPT !.enabled = Some(TRUE), !.handler = Some(h)] :
        h \in {[type |-> "programmatic"], [type |-> "module"]} }

NextNormalize ==
    \/ \E cfg \in NormalizeCfgs :
          \E e \in {"PreToolUse", "PostToolUse"} :
              executeHook(cfg, [NoContext EXCEPT !.event = e], DefaultOptions)
    \/ \E i \in DOMAIN batch.inv, raw \in ReturnedValues, d \in {Duration, 2 * Duration} :
          AttemptReturns(i, raw, d)
    \/ \E i \in DOMAIN batch.inv : AttemptThrows(i, Duration)

SpecNormalize == Init /\ [][NextNormalize]_vars

\* the value the callback of invocation i returned and what it became
Raw(i) == Val(batch.inv[i].returned)

Normalized(i) == batch.inv[i].rec[1].result

\* C31 (as stated): a boolean b becomes success b with exit code 0 or 1, a
\* number n exit code n, an object its own success and exit code, and an
\* object without exit code gets 0 when the normalised success is true and 1
\* otherwise: without an explicit exit code, success never comes with a
\* non-zero exit code.
C31_NormalizedResult ==
    \A i \in DOMAIN batch.inv :
        (batch.inv[i].outcome = "returned" /\ IsSome(batch.inv[i].returned)) =>
            LET raw == Raw(i)
                res == Normalized(i)
            IN  /\ raw.kind = "boolean" =>
                      res.success = raw.bool /\ res.exitCode = (IF raw.bool THEN 0 ELSE 1)
                /\ raw.kind = "number" => res.exitCode = raw.num
                /\ raw.kind = "object" =>
                      /\ IsSome(raw.success) => res.success = Val(raw.success)
                      /\ IsSome(raw.exitCode) => res.exitCode = Val(raw.exitCode)
                      /\ ~IsSome(raw.exitCode) =>
                            res.exitCode = (IF res.success THEN 0 ELSE 1)
                /\ (raw.kind # "number" /\ ~(raw.kind = "object" /\ IsSome(raw.exitCode)))
                      => ~(res.success /\ res.exitCode # 0)

-----------------------------------------------------------------------------
(* Termination of a dispatch: executeHooks over the handlers of an event,    *)
(* sequential and parallel, each attempt ending or reaching its timeout      *)

\* the handlers of the event in the store
MaxBatch == 2

\* an attempt of handler i ends: the callback returns or throws, or the
\* timer of executeProgrammatic rejects first
AttemptEnds(i) ==
    \/ \E b \in BOOLEAN : AttemptReturns(i, BoolValue(b), Duration)
    \/ AttemptThrows(i, Duration)
    \/ AttemptTimesOut(i, Duration)

\* the handlers are registered before the first dispatch; an id may be
\* registered again
NextDispatch ==
    \/ \E cfg \in {CfgFirst, CfgSecond} :
          /\ batch.status = "idle"
          /\ Len(HooksForEvent(hooks, eventIndex, "PreToolUse")) < MaxBatch
          /\ register(cfg)
    \/ \E o \in ExecOptions : handleEvent("PreToolUse", ToolCtx("Read"), o)
    \/ \E i \in 1..MaxBatch : AttemptEnds(i)

\* no attempt stays pending for ever
FairDispatch == \A i \in 1..MaxBatch : WF_vars(AttemptEnds(i))

SpecDispatch == Init /\ [][NextDispatch]_vars /\ FairDispatch

\* a handleEvent call is under way / has handed its batch result back
Dispatched == batch.status = "running"

Returned == batch.status = "done" /\ IsSome(batch.summary)

\* C32, first part: a dispatch under way is followed by its batch result
C32_Returns == Dispatched ~> Returned

\* C32, second part: no invocation makes more than retries + 1 attempts
C32_AttemptsBounded ==
    \A i \in DOMAIN batch.inv :
        batch.inv[i].calls <= OrNum(batch.hooks[i].hook.retry, 0) + 1

\* C32, third part: no handler is taken twice by one batch
C32_EachHandlerOnce ==
    \A i, j \in DOMAIN batch.hooks :
        batch.hooks[i].hook.id = batch.hooks[j].hook.id => i = j

\* C32: every dispatch, sequential or parallel, eventually returns a batch
\* result when each attempt ends or times out, because each selected handler
\* makes at most retries + 1 attempts and the batch takes each handler at
\* most once.
C32_DispatchTerminates ==
    /\ C32_Returns
    /\ []C32_AttemptsBounded
    /\ []C32_EachHandlerOnce

-----------------------------------------------------------------------------
(* Priorities given at registration: every value of [0, 1000] and none *)

GivenPriorities == {Nothing, Some(0), Some(1), Some(1000)}

PriorityCfgs ==
    { [BaseCfg EXCEPT !.id = i, !.events = ev, !.priority = p] :
        i \in Ids, ev \in {<<"SessionStart">>, <<"SessionStart", "Stop">>},
        p \in GivenPriorities }

NextPriority ==
    \/ \E cfg \in PriorityCfgs : register(cfg)
    \/ \E id \in Ids : unregister(id)

SpecPriority == Init /\ [][NextPriority]_vars

\* the ids forEvent returns after the step
ForEventAfter(event) == HookIds(HooksForEvent(hooks', eventIndex', event))

\* C33: register stores the priority it is given, 0 included, and 50 when
\* the definition has none; a handler registered with priority 0 comes, in
\* what forEvent returns for each of its events, before every other handler
\* holding a priority of 1 or more.
C33_PriorityStored ==
    [][ \A cfg \in PriorityCfgs :
          register(cfg) =>
              /\ hooks'[cfg.id].priority =
                     IF IsSome(cfg.priority) THEN Val(cfg.priority) ELSE 50
              /\ cfg.priority = Some(0) =>
                     \A e \in Range(cfg.events) :
                         LET order == ForEventAfter(e)
                         IN  \A i, j \in DOMAIN order :
                                 ( /\ order[i] = cfg.id
                                   /\ order[j] # cfg.id
                                   /\ hooks'[order[j]].priority >= 1 ) => i < j
      ]_vars

-----------------------------------------------------------------------------
(* Early returns and the store: registered handlers that are disabled, have  *)
(* a filter that fails, or are called with an object whose matcher fails     *)

ToolFilter == Some([NoFilter EXCEPT !.tools = Some({"Write"})])

SkipCfgs ==
    { CfgFirst,
      [CfgSecond EXCEPT !.enabled = Some(FALSE)],
      [CfgSecond EXCEPT !.filter = ToolFilter] }

\* the handlers are registered, and may have an error recorded, before the
\* first dispatch
NextSkip ==
    \/ \E cfg \in SkipCfgs : batch.status = "idle" /\ register(cfg)
    \/ \E id \in Ids :
          batch.status = "idle" /\ calls.errors[id] = <<>> /\ RecordErrorCall(id)
    \/ \E o \in {DefaultOptions, ParallelOptions} :
          handleEvent("PreToolUse", ToolCtx("Read"), o)
    \/ \E id \in Ids : executeHookById(id, ToolCtx("Read"), DefaultOptions)
    \/ executeHook([CfgFirst EXCEPT !.enabled = Some(TRUE), !.matcher = "Write"],
                   [ToolCtx("Read") EXCEPT !.event = "PreToolUse"], DefaultOptions)
    \/ \E i \in DOMAIN batch.inv, b \in BOOLEAN : AttemptReturns(i, BoolValue(b), Duration)
    \/ \E i \in DOMAIN batch.inv : AttemptThrows(i, Duration)

SpecSkip == Init /\ [][NextSkip]_vars

\* C34: in a step of the executor, a registered handler whose invocations
\* ending in that step all end in one of the three skips keeps its stats
\* (executions, successes, failures, blocked, average duration, last error,
\* error history) and its hook record, and its body was not called; when no
\* invocation ends otherwise in the step the whole store is as before.
C34_SkipLeavesStore ==
    [][ batch'.status # "idle" =>
          /\ \A id \in DOMAIN stats :
                ( /\ EndedNow(id, {"skipped"}) # {}
                  /\ EndedNow(id, {"returned", "exhausted"}) = {} ) =>
                    /\ Has(stats', id) /\ stats'[id] = stats[id]
                    /\ Has(hooks, id) => (Has(hooks', id) /\ hooks'[id] = hooks[id])
                    /\ \A i \in EndedNow(id, {"skipped"}) : batch'.inv[i].calls = 0
          /\ ( /\ \E i \in DOMAIN batch'.inv :
                      i \in EndedNow(batch'.hooks[i].hook.id, {"skipped"})
               /\ \A i \in DOMAIN batch'.inv :
                      i \notin EndedNow(batch'.hooks[i].hook.id, {"returned", "exhausted"}) )
                => UNCHANGED <<hooks, eventIndex, priorityIndex, stats>>
      ]_vars

\* h2, registered disabled and with an error on record, was called by id:
\* skipped, its error still there and nothing counted
C34_Witness ==
    /\ batch.kind = "executeHookById"
    /\ batch.status = "done"
    /\ batch.hooks[1].hook.id = "h2"
    /\ SkippedAs(1, "Hook disabled")
    /\ stats["h2"].errorHistory = <<0>>
    /\ stats["h2"].executions = 0
    /\ hooks["h2"].executionCount = 0

-----------------------------------------------------------------------------
(* The counts of a handler: stats entry and hook record *)

\* the counts of one registered handler agree with each other
CountsAgree(id) ==
    /\ stats[id].executions = stats[id].successes + stats[id].failures
    /\ stats[id].blocked <= stats[id].executions
    /\ Has(hooks, id) =>
          /\ hooks[id].executionCount = stats[id].executions
          /\ hooks[id].successCount = stats[id].successes
          /\ hooks[id].failureCount = stats[id].failures

\* C35: in every reachable state each registered handler has executions =
\* successes + failures, blocked <= executions, and a hook record whose
\* executionCount, successCount and failureCount are the stats values; and in
\* every step of a dispatch the executions of a handler grow by one for each
\* of its invocations that ends in the step without being skipped, and by
\* nothing else, whether the invocation made one attempt or several.
C35_CountsConsistent ==
    /\ [](\A id \in DOMAIN stats : CountsAgree(id))
    /\ [][ batch' # batch =>
             \A id \in DOMAIN stats' :
                 stats'[id].executions =
                     StatsBefore(id).executions
                         + Cardinality(EndedInBatch(id)' \ 
                                 (IF batch.status = "running" THEN EndedInBatch(id) ELSE {}))
         ]_vars

\* h2 threw once, was tried again and returned true: one execution, one
\* success, in the stats and in the hook record
C35_Witness ==
    /\ batch.status = "done"
    /\ \E i \in DOMAIN batch.inv :
          /\ batch.hooks[i].hook.id = "h2"
          /\ batch.inv[i].calls = 2
          /\ batch.inv[i].outcome = "returned"
    /\ Cardinality(EndedInBatch("h2")) = 1
    /\ stats["h2"].executions = 1
    /\ stats["h2"].successes = 1
    /\ hooks["h2"].executionCount = 1
    /\ hooks["h2"].successCount = 1

-----------------------------------------------------------------------------
(* HookInterceptor: construction, initialize, destroy *)

\* the handler definitions of the loaded (merged) configuration
ConfigHooks == <<CfgFirst, [CfgSecond EXCEPT !.events = <<"SessionStart">>]>>

\* new HookInterceptor({autoInitialize}): with autoInitialize the constructor
\* calls initialize() and does not wait for it
NewInterceptor(auto) ==
    /\ ~interceptor.built
    /\ interceptor' = [interceptor EXCEPT
                          !.built = TRUE,
                          !.pc["auto"] = IF auto THEN [at |-> "load", k |-> 0] ELSE @]
    /\ UNCHANGED <<hooks, eventIndex, priorityIndex, stats, thrown, providerManager,
                   batch, calls>>

\* initialize() up to its first await: the warning when `initialized` is set,
\* else configManager.load() is started.  The call "lazy" is the one
\* handleEvent makes, which looks at `initialized` itself first.
initialize(c) ==
    /\ interceptor.built
    /\ interceptor.pc[c] = Idle
    /\ c = "lazy" => ~interceptor.initialized
    /\ interceptor' = IF interceptor.initialized
                      THEN [interceptor EXCEPT !.warned = TRUE]
                      ELSE [interceptor EXCEPT !.pc[c] = [at |-> "load", k |-> 0]]
    /\ UNCHANGED <<hooks, eventIndex, priorityIndex, stats, thrown, providerManager,
                   batch, calls>>

\* where initialize() stands after the k-th definition is registered
AfterRegister(k) ==
    IF k < Len(ConfigHooks) THEN [at |-> "register", k |-> k + 1]
    ELSE [at |-> "logger", k |-> 0]

\* await configManager.load() is over
ConfigLoaded(c) ==
    /\ interceptor.pc[c].at = "load"
    /\ interceptor' = [interceptor EXCEPT !.pc[c] = AfterRegister(0)]
    /\ UNCHANGED <<hooks, eventIndex, priorityIndex, stats, thrown, providerManager,
                   batch, calls>>

\* await this.registry.register(hook), for the next definition of the loop
InitializeRegisters(c) ==
    /\ interceptor.pc[c].at = "register"
    /\ LET k == interceptor.pc[c].k
       IN  registerThen(ConfigHooks[k], [interceptor EXCEPT !.pc[c] = AfterRegister(k)])

\* await logger.initialize() is over: the executor is made (the configuration
\* has no ai section) and `initialized` is set
InitializeDone(c) ==
    /\ interceptor.pc[c].at = "logger"
    /\ interceptor' = [interceptor EXCEPT !.initialized = TRUE, !.pc[c] = Idle]
    /\ providerManager' = "null"
    /\ UNCHANGED <<hooks, eventIndex, priorityIndex, stats, thrown, batch, calls>>

\* destroy(): the configuration is saved, the logger closed, `initialized`
\* reset; the registry is left as it is
destroy ==
    /\ interceptor.built
    /\ interceptor.initialized
    /\ interceptor' = [interceptor EXCEPT !.initialized = FALSE]
    /\ UNCHANGED <<hooks, eventIndex, priorityIndex, stats, thrown, providerManager,
                   batch, calls>>

NextInitialize ==
    \/ \E auto \in BOOLEAN : NewInterceptor(auto)
    \/ \E c \in {"lazy", "call"} : initialize(c)
    \/ \E c \in InitCalls : ConfigLoaded(c)
    \/ \E c \in InitCalls : InitializeRegisters(c)
    \/ \E c \in InitCalls : InitializeDone(c)
    \/ destroy

SpecInitialize == Init /\ [][NextInitialize]_vars

\* how often an id is listed
RECURSIVE Occurrences(_, _)
Occurrences(seq, id) ==
    IF seq = <<>> THEN 0
    ELSE (IF Head(seq) = id THEN 1 ELSE 0) + Occurrences(Tail(seq), id)

\* C36 (as stated): under every interleaving of initialize calls and destroy,
\* each definition of the loaded configuration is listed at most once under
\* each of its events, and exactly once, with its hook object in the id map,
\* while the interceptor is initialized.
C36_RegisteredOnce ==
    \A k \in DOMAIN ConfigHooks :
        \A e \in Range(ConfigHooks[k].events) :
            LET n == Occurrences(IF Has(eventIndex, e) THEN eventIndex[e] ELSE <<>>,
                                 ConfigHooks[k].id)
            IN  /\ n <= 1
                /\ interceptor.initialized => (n = 1 /\ Has(hooks, ConfigHooks[k].id))

\* C36, the part that holds: initialize() while initialized registers nothing
C36_SecondInitializeNoOp ==
    [][ \A c \in InitCalls :
           (initialize(c) /\ interceptor.initialized) =>
               /\ UNCHANGED <<hooks, eventIndex, priorityIndex, stats>>
               /\ interceptor'.pc = interceptor.pc
      ]_vars

-----------------------------------------------------------------------------
(* A handler disabled while the batch that selected it is running *)

\* two handlers of one event; the host disables one, through the interceptor
\* or the registry, while the batch is under way
NextDisable ==
    \/ \E cfg \in {CfgFirst, CfgSecond} : ~Has(hooks, cfg.id) /\ register(cfg)
    \/ \E o \in ExecOptions : handleEvent("PreToolUse", ToolCtx("Read"), o)
    \/ \E id \in Ids : batch.status = "running" /\ disableHook(id)
    \/ \E id \in Ids : batch.status = "running" /\ disable(id)
    \/ \E i \in DOMAIN batch.inv, b \in BOOLEAN : AttemptReturns(i, BoolValue(b), Duration)
    \/ \E i \in DOMAIN batch.inv : AttemptThrows(i, Duration)

SpecDisable == Init /\ [][NextDisable]_vars

\* C37: in a sequential batch, a handler that was looked up enabled and is
\* disabled when the batch reaches it is not invoked; its record is the
\* "Hook disabled" skip.
C37_DisabledBeforeTurn ==
    [][ \A i \in DOMAIN batch.inv :
          ( /\ batch.status = "running"
            /\ SequentialBatch
            /\ batch.inv[i].st = "pending"
            /\ ~hooks[batch.hooks[i].hook.id].enabled
            /\ batch'.inv[i].st # "pending" ) =>
              /\ batch'.inv[i].st = "done"
              /\ batch'.inv[i].outcome = "skipped"
              /\ batch'.inv[i].calls = 0
              /\ batch'.inv[i].rec[1].result.stdout = "Hook disabled"
              /\ batch'.inv[i].rec[1].result.success
              /\ ~batch'.inv[i].rec[1].blocked
      ]_vars

\* h1 ran and returned, h2 was disabled meanwhile: the batch that had looked
\* up both skipped h2
C37_Witness ==
    /\ batch.kind = "handleEvent"
    /\ ~batch.parallel
    /\ batch.status = "done"
    /\ Len(batch.inv) = 2
    /\ batch.inv[1].outcome = "returned"
    /\ batch.hooks[2].hook.id = "h2"
    /\ SkippedAs(2, "Hook disabled")
    /\ ~hooks["h2"].enabled

-----------------------------------------------------------------------------
(* continueOnError: the option of the dispatch and the flag of a definition *)

\* h1 registered without the flag or with false, h2 without it
ContinueCfgs ==
    { [CfgFirst EXCEPT !.continueOnError = c] : c \in {Nothing, Some(FALSE)} }
    \cup {CfgSecond}

NextContinue ==
    \/ \E cfg \in ContinueCfgs : ~Has(hooks, cfg.id) /\ register(cfg)
    \/ \E c \in BOOLEAN :
          handleEvent("PreToolUse", ToolCtx("Read"),
                      [DefaultOptions EXCEPT !.continueOnError = c])
    \/ \E i \in DOMAIN batch.inv, b \in BOOLEAN : AttemptReturns(i, BoolValue(b), Duration)
    \/ \E i \in DOMAIN batch.inv : AttemptThrows(i, Duration)

SpecContinue == Init /\ [][NextContinue]_vars

-----------------------------------------------------------------------------
(* A prompt handler that denies, ahead of another handler of the event *)

PermissionEvents == <<"PreToolUse", "PermissionRequest", "PostToolUse">>

\* the prompt handler is selected first
CfgAsk ==
    [BaseCfg EXCEPT !.id = "h1", !.events = PermissionEvents,
                    !.handler = Some(PromptHandler), !.priority = Some(10)]

CfgAfter ==
    [BaseCfg EXCEPT !.id = "h2", !.events = PermissionEvents,
                    !.handler = Some(Programmatic)]

NextDeny ==
    \/ \E cfg \in {CfgAsk, CfgAfter} : ~Has(hooks, cfg.id) /\ register(cfg)
    \/ \E pm \in ProviderManagers : NewExecutor(pm)
    \/ \E e \in Range(PermissionEvents), o \in ExecOptions :
          handleEvent(e, ToolCtx("Read"), o)
    \/ \E i \in DOMAIN batch.inv, a \in Answers : PromptReturns(i, a, Duration)
    \/ \E i \in DOMAIN batch.inv, b \in BOOLEAN : AttemptReturns(i, BoolValue(b), Duration)

SpecDeny == Init /\ [][NextDeny]_vars

-----------------------------------------------------------------------------
(* The priority index under every mutation of a stored handler *)

\* each id is registered once; the priorities asked for are valid ones
NextIndex ==
    \/ \E cfg \in StoreCfgs : ~Has(hooks, cfg.id) /\ register(cfg)
    \/ \E id \in Ids : enable(id)
    \/ \E id \in Ids : disable(id)
    \/ \E id \in Ids, p \in {0, 1000} : updatePriority(id, p)
    \/ \E id \in Ids, events \in StoreEventLists : updateEvents(id, events)
    \/ \E id \in Ids : enableHook(id)
    \/ \E id \in Ids : disableHook(id)
    \/ \E id \in Ids, p \in {0, 1000} : updateHookPriority(id, p)

SpecIndex == Init /\ [][NextIndex]_vars

\* the ids are those of the event's enabled handlers, by ascending priority
IndexDerived(e) ==
    LET ids == priorityIndex[e]
    IN  IF Range(ids) = { id \in Range(eventIndex[e]) : Has(hooks, id) /\ hooks[id].enabled }
        THEN \A i, j \in DOMAIN ids :
                 i < j => (ids[i] # ids[j] /\ hooks[ids[i]].priority <= hooks[ids[j]].priority)
        ELSE FALSE

\* C40 (as stated): after every enable, disable, reprioritize and event
\* change, made through the registry or through the interceptor, the
\* priority index has an entry for exactly the events of the event index,
\* and the entry of an event is the ids of its enabled handlers sorted by
\* priority ascending.
C40_PriorityIndexDerived ==
    /\ DOMAIN priorityIndex = DOMAIN eventIndex
    /\ \A e \in DOMAIN priorityIndex : IndexDerived(e)

\* C40, the registry's own operations: each of them leaves the index derived
C40_RegistryKeepsIndex ==
    [][ ( /\ C40_PriorityIndexDerived
          /\ \E id \in Ids :
                \/ enable(id) \/ disable(id)
                \/ \E p \in {0, 1000} : updatePriority(id, p)
                \/ \E events \in StoreEventLists : updateEvents(id, events) )
        => C40_PriorityIndexDerived'
      ]_vars

=============================================================================
